---- MODULE Spec2Model ----
(***************************************************************************)
(* Aluminum quote application: pricing engine and quote/customer state.    *)
(*                                                                         *)
(* Numbers.  The program computes with JavaScript doubles.  The model      *)
(* computes with exact rationals <<n, d>> (d > 0, lowest terms); NaN is    *)
(* the pair <<0, 0>>.  Every number the modelled inputs produce is a       *)
(* short decimal, so the model states the arithmetic the code performs     *)
(* without the last-bit rounding of the binary representation.             *)
(*                                                                         *)
(* Texts.  A text is a sequence of one-character strings, so that the      *)
(* character-level functions (trim, the regular-expression filter,         *)
(* parseFloat, String(number)) are computed as the code computes them.     *)
(***************************************************************************)
EXTENDS Integers, Sequences, FiniteSets, TLC

(***************************************************************************)
(* Bounds of the model                                                     *)
(***************************************************************************)
\* longest text enumerated over ParseAlphabet for the parsing functions
MaxLen == 3

\* most line items the draft holds
MaxItems == 2

\* last identifier uuid() hands out (1..4 are the default profiles)
MaxId == 8

\* rows of an exported quote
MaxRows == 3

(***************************************************************************)
(* JavaScript numbers as exact rationals                                   *)
(***************************************************************************)
RECURSIVE GCD(_, _)
GCD(a, b) == IF b = 0 THEN a ELSE GCD(b, a % b)

Abs(n) == IF n < 0 THEN -n ELSE n

\* n/d with the common factor g removed and a positive denominator
Reduced(n, d, g) ==
  IF d < 0 THEN <<-(n \div g), -(d \div g)>> ELSE <<n \div g, d \div g>>

\* the rational n/d (d # 0) in lowest terms
Num(n, d) == Reduced(n, d, GCD(Abs(n), Abs(d)))

Whole(n) == <<n, 1>>

NaN == <<0, 0>>

isFinite(x) == x[2] # 0

Add(a, b) == Num(a[1] * b[2] + b[1] * a[2], a[2] * b[2])

Mul(a, b) == Num(a[1] * b[1], a[2] * b[2])

\* a / k for a positive integer literal k (the code divides by 10000 and 100)
DivInt(a, k) == Num(a[1], a[2] * k)

Neg(a) == <<-a[1], a[2]>>

Gt(a, b) == a[1] * b[2] > b[1] * a[2]

Le(a, b) == a[1] * b[2] <= b[1] * a[2]

\* variant of MathMax that does not clamp: the second argument as it is
MathMaxSecond(a, b) == b

\* Math.max(a, b)
MathMax(a, b) == IF Gt(b, a) THEN b ELSE a

RECURSIVE Pow10(_)
Pow10(k) == IF k = 0 THEN 1 ELSE 10 * Pow10(k - 1)

(***************************************************************************)
(* Texts                                                                   *)
(***************************************************************************)
Digits == {"0", "1", "2", "3", "4", "5", "6", "7", "8", "9"}

DigitVal(c) ==
  CASE c = "0" -> 0 [] c = "1" -> 1 [] c = "2" -> 2 [] c = "3" -> 3
    [] c = "4" -> 4 [] c = "5" -> 5 [] c = "6" -> 6 [] c = "7" -> 7
    [] c = "8" -> 8 [] c = "9" -> 9

\* the value null / undefined where the code expects a text
Null == <<"<null>">>

IsSpace(c) == c = " "

\* String.prototype.trim
RECURSIVE trimStart(_)
trimStart(s) ==
  IF s # <<>> /\ IsSpace(Head(s)) THEN trimStart(Tail(s)) ELSE s

RECURSIVE trimEnd(_)
trimEnd(s) ==
  IF s # <<>> /\ IsSpace(s[Len(s)]) THEN trimEnd(SubSeq(s, 1, Len(s) - 1)) ELSE s

trim(s) == trimEnd(trimStart(s))

\* the characters the filter /[^\d.,-]/g keeps
IsNumChar(c) == c \in Digits \cup {".", ",", "-"}

\* variant of stripNonNumeric that filters nothing
keepEveryChar(s) == s

\* s.replace(/[^\d.,-]/g, "")
stripNonNumeric(s) == SelectSeq(s, IsNumChar)

\* s.replace(",", "."): a string pattern replaces the first occurrence only
RECURSIVE replaceFirstComma(_)
replaceFirstComma(s) ==
  IF s = <<>> THEN <<>>
  ELSE IF Head(s) = "," THEN <<".">> \o Tail(s)
  ELSE <<Head(s)>> \o replaceFirstComma(Tail(s))

\* number of consecutive digits of s starting at position i
RECURSIVE DigitRun(_, _)
DigitRun(s, i) ==
  IF i <= Len(s) /\ s[i] \in Digits THEN 1 + DigitRun(s, i + 1) ELSE 0

\* the value of the n digits of s starting at position i
RECURSIVE DigitsValue(_, _, _)
DigitsValue(s, i, n) ==
  IF n = 0 THEN 0
  ELSE 10 * DigitsValue(s, i, n - 1) + DigitVal(s[i + n - 1])

\* number of fraction digits when s has "." at position i, 0 otherwise
FractionRun(s, i) ==
  IF i <= Len(s) /\ s[i] = "." THEN DigitRun(s, i + 1) ELSE 0

\* the decimal with ni integer digits from position i0 and nf fraction digits
Magnitude(s, i0, ni, nf) ==
  IF ni = 0 /\ nf = 0 THEN NaN
  ELSE Add(Whole(DigitsValue(s, i0, ni)),
           Num(DigitsValue(s, i0 + ni + 1, nf), Pow10(nf)))

\* the longest numeral of s that starts at position i0 with ni integer digits
UnsignedFrom(s, i0, ni) == Magnitude(s, i0, ni, FractionRun(s, i0 + ni))

\* parseFloat on a text of digits, ".", "," and "-": an optional sign, then
\* digits with an optional fraction, or a fraction alone; what follows the
\* longest such prefix is ignored; no such prefix gives NaN.
parseFloat(s) ==
  IF Len(s) >= 1 /\ s[1] = "-"
  THEN Neg(UnsignedFrom(s, 2, DigitRun(s, 2)))
  ELSE UnsignedFrom(s, 1, DigitRun(s, 1))

(***************************************************************************)
(* Pricing engine: loose number parsing and tax normalisation              *)
(***************************************************************************)
\* const cleaned = s.replace(/[^\d.,-]/g, "").replace(",", ".")
cleaned(s) == replaceFirstComma(stripNonNumeric(s))

\* App.tsx
parseLooseNumber(s) ==
  IF s = Null \/ s = <<>> \/ trim(s) = <<>> THEN Whole(0)
  ELSE LET n == parseFloat(cleaned(s))
       IN  IF isFinite(n) THEN n ELSE Whole(0)

\* pdfExporter.ts (the callers pass texts or null, never a number)
parseLooseNumberPdf(value) ==
  IF value = Null THEN Whole(0)
  ELSE LET n == parseFloat(cleaned(value))
       IN  IF isFinite(n) THEN n ELSE Whole(0)

\* App.tsx
normalizeTaxPercent(n) ==
  IF n = Whole(0) THEN Whole(0)
  ELSE IF Gt(n, Whole(1)) THEN DivInt(n, 100)
  ELSE n

\* pdfExporter.ts
normalizeTaxPercentPdf(raw) ==
  IF ~isFinite(raw) \/ Le(raw, Whole(0)) THEN Whole(0)
  ELSE IF Gt(raw, Whole(1)) THEN DivInt(raw, 100)
  ELSE raw

(***************************************************************************)
(* String(number) for the short decimals the program converts back to text *)
(***************************************************************************)
\* decimal digits of a natural number, most significant first
RECURSIVE natToText(_)
natToText(n) ==
  IF n < 10 THEN <<CHOOSE c \in Digits : DigitVal(c) = n>>
  ELSE natToText(n \div 10) \o <<CHOOSE c \in Digits : DigitVal(c) = n % 10>>

\* digits of the fraction r/d (0 <= r < d, d a divisor of a power of ten)
RECURSIVE fracToText(_, _)
fracToText(r, d) ==
  IF r = 0 THEN <<>>
  ELSE natToText((10 * r) \div d) \o fracToText((10 * r) % d, d)

\* number of "0" at the head of a digit text
RECURSIVE leadingZeros(_)
leadingZeros(digits) ==
  IF digits # <<>> /\ digits[1] = "0" THEN 1 + leadingZeros(Tail(digits))
  ELSE 0

\* d.ddd for the significant digits sig
mantissa(sig) ==
  IF Len(sig) = 1 THEN sig ELSE <<sig[1], ".">> \o Tail(sig)

\* String(x) for 0 < x < 1 with the fraction digits frac: decimal notation
\* down to 0.000001, exponent notation below
smallToString(frac) ==
  IF leadingZeros(frac) < 6 THEN <<"0", ".">> \o frac
  ELSE mantissa(SubSeq(frac, leadingZeros(frac) + 1, Len(frac)))
         \o <<"e", "-">> \o natToText(leadingZeros(frac) + 1)

\* the decimal notation of a / d
decimalToString(a, d) ==
  IF a % d = 0 THEN natToText(a \div d)
  ELSE IF a \div d = 0 THEN smallToString(fracToText(a % d, d))
  ELSE natToText(a \div d) \o <<".">> \o fracToText(a % d, d)

\* String(x) for a finite number x below 10^21
numberToString(x) ==
  (IF x[1] < 0 THEN <<"-">> ELSE <<>>) \o decimalToString(Abs(x[1]), x[2])

(***************************************************************************)
(* Application state (App.tsx)                                             *)
(*                                                                         *)
(* Texts the code only copies or tests for emptiness (phone, email, notes, *)
(* title, add-on names) are atomic strings; texts it trims or parses are   *)
(* character sequences.  Identifiers are drawn from the counter nextId in  *)
(* the order the code calls uuid(); 0 stands for an undefined id.          *)
(* Timestamps (Quote.date, Customer.createdAt) are left out: the only      *)
(* reader, the sort in openLastQuoteForCustomer, ranges over the quotes of *)
(* one customer, and saveQuote keeps at most one quote per customer.       *)
(***************************************************************************)
VARIABLES
  customers,        \* state.customers
  quotes,           \* state.quotes
  profiles,         \* state.profiles
  current,          \* state.current
  itemEditor,       \* the inline calculator's LineItem
  activeProfileId,  \* selected profile, 0 when undefined
  profileDraft,     \* settings dialog draft
  memo,             \* values cached by useMemo in the last render
  nextId,           \* next identifier uuid() hands out
  formStep,         \* how far down the item form the user has typed
  dialogStep,       \* how far the user has gone through the settings dialog
  parseIn,          \* text handed to the parsing functions
  parsePc,          \* "input", "parsed" or "normalized"
  parseOut,         \* results of parseLooseNumber (App.tsx, pdfExporter.ts)
  taxOut,           \* results of normalizeTaxPercent on those numbers
  pdfPc,            \* where exportQuotePdf stands
  pdfPayload,       \* the PdfQuotePayload handed to exportQuotePdf
  pdfEnv,           \* what the environment answers: import, page, wrapping
  pdfCursor,        \* drawItemsTable: y, page and index of the next row
  pdfLog,           \* alerts, fetches, draw operations and saves, in order
  drawArgs,         \* arguments of one drawTextSmart call
  storage,          \* localStorage: the text under LS_KEY and under the backup key
  bootPc            \* "stored", "hydrated" or "autosaved"

appVars == <<customers, quotes, profiles, current, itemEditor,
             activeProfileId, profileDraft, memo, nextId>>

parseVars == <<parseIn, parsePc, parseOut, taxOut>>

scriptVars == <<formStep, dialogStep>>

pdfVars == <<pdfPc, pdfPayload, pdfEnv, pdfCursor, pdfLog, drawArgs>>

bootVars == <<storage, bootPc>>

vars == <<customers, quotes, profiles, current, itemEditor, activeProfileId,
          profileDraft, memo, nextId, formStep, dialogStep, parseIn, parsePc,
          parseOut, taxOut, pdfPc, pdfPayload, pdfEnv, pdfCursor, pdfLog,
          drawArgs, storage, bootPc>>

\* profileName: p?.name when no profile is found
Undefined == <<"<undefined>">>

DEFAULT_TITLE == "הצעת מחיר"

defaultProfiles ==
  << [id |-> 1, name |-> <<"4", "3", "0", "0">>, unitPrice |-> Whole(520)],
     [id |-> 2, name |-> <<"5", "6", "0", "0">>, unitPrice |-> Whole(590)],
     [id |-> 3, name |-> <<"7", "3", "0", "0">>, unitPrice |-> Whole(690)],
     [id |-> 4, name |-> <<"7", "6", "0", "0">>, unitPrice |-> Whole(740)] >>

defaultAddonsPreset ==
  << [name |-> "רשת", price |-> <<"8", "0">>, checked |-> FALSE],
     [name |-> "פרזול איכותי", price |-> <<"1", "2", "0">>, checked |-> FALSE],
     [name |-> "תריס גלילה", price |-> <<"0">>, checked |-> FALSE] >>

DEFAULT_CURRENT ==
  [customerName |-> <<>>, customerPhone |-> "", customerEmail |-> "",
   customerNotes |-> "", title |-> DEFAULT_TITLE, items |-> <<>>,
   taxPercentText |-> <<"1", "7">>, notes |-> ""]

\* the editor's own id is never read and is left out
initItemEditor ==
  [widthCm |-> <<>>, heightCm |-> <<>>, qty |-> <<"1">>, profileId |-> 0,
   profileName |-> <<>>, unitPrice |-> <<"0">>, location |-> "",
   details |-> "", addons |-> defaultAddonsPreset, subtotal |-> Whole(0)]

(***************************************************************************)
(* Derived values of a render                                              *)
(***************************************************************************)
\* seq without its last element
Front(seq) == SubSeq(seq, 1, Len(seq) - 1)

\* variant of addonContribution that ignores the check box
addonContributionUnchecked(a) == parseLooseNumber(a.price)

addonContribution(a) == IF a.checked THEN parseLooseNumber(a.price) ELSE Whole(0)

itemSubtotal(it) == it.subtotal

\* state.current.items.reduce((a, it) => a + it.subtotal, 0)
RECURSIVE computeSubTotal(_)
computeSubTotal(items) ==
  IF items = <<>> THEN Whole(0)
  ELSE Add(computeSubTotal(Front(items)), itemSubtotal(items[Len(items)]))

\* addons.reduce((sum, a) => sum + (a.checked ? parseLooseNumber(a.price) : 0), 0)
RECURSIVE addonsReduce(_)
addonsReduce(addons) ==
  IF addons = <<>> THEN Whole(0)
  ELSE Add(addonsReduce(Front(addons)), addonContribution(addons[Len(addons)]))

taxDecimal == normalizeTaxPercent(parseLooseNumber(current.taxPercentText))

subTotal == memo.subTotal

taxValue == Mul(subTotal, taxDecimal)

grandTotal == Add(subTotal, taxValue)

computeLiveArea(ed) ==
  DivInt(Mul(parseLooseNumber(ed.widthCm), parseLooseNumber(ed.heightCm)), 10000)

computeLiveAddonsSumPerItem(ed) == addonsReduce(ed.addons)

computeLivePerItemPrice(area, ed, addonsSum) ==
  Add(Mul(area, parseLooseNumber(ed.unitPrice)), addonsSum)

\* variant of computeLiveQty without the clamp at 0
computeLiveQtyUnclamped(ed) == parseLooseNumber(ed.qty)

computeLiveQty(ed) == MathMax(Whole(0), parseLooseNumber(ed.qty))

computeLiveLineSubtotal(perItem, qty) == Mul(perItem, qty)

\* liveLineSubtotal, the last value of a render, from the values before it
RenderLine(m, area, adds, per, qty, sub) ==
  [subTotal |-> sub, liveArea |-> area, liveAddonsSumPerItem |-> adds,
   livePerItemPrice |-> per, liveQty |-> qty,
   liveLineSubtotal |-> IF per # m.livePerItemPrice \/ qty # m.liveQty
                        THEN computeLiveLineSubtotal(per, qty)
                        ELSE m.liveLineSubtotal]

\* livePerItemPrice, from the render's liveArea and liveAddonsSumPerItem
RenderPrice(m, ed0, ed1, area, adds, qty, sub) ==
  RenderLine(m, area, adds,
             IF area # m.liveArea \/ ed1.unitPrice # ed0.unitPrice
                \/ adds # m.liveAddonsSumPerItem
             THEN computeLivePerItemPrice(area, ed1, adds)
             ELSE m.livePerItemPrice,
             qty, sub)

\* variant of Render whose subTotal ignores its dependency on the items array
RenderStaleSubTotal(m, ed0, ed1, newAddons, items1, newItems) ==
  RenderPrice(m, ed0, ed1,
              IF ed1.widthCm # ed0.widthCm \/ ed1.heightCm # ed0.heightCm
              THEN computeLiveArea(ed1) ELSE m.liveArea,
              IF newAddons THEN computeLiveAddonsSumPerItem(ed1)
              ELSE m.liveAddonsSumPerItem,
              IF ed1.qty # ed0.qty THEN computeLiveQty(ed1) ELSE m.liveQty,
              m.subTotal)

\* One render: each useMemo value is recomputed when one of its dependencies
\* differs from the previous render (texts and numbers by value, the arrays
\* itemEditor.addons and state.current.items by reference: newAddons and
\* newItems tell whether the handler installed a new array).
Render(m, ed0, ed1, newAddons, items1, newItems) ==
  RenderPrice(m, ed0, ed1,
              IF ed1.widthCm # ed0.widthCm \/ ed1.heightCm # ed0.heightCm
              THEN computeLiveArea(ed1) ELSE m.liveArea,
              IF newAddons THEN computeLiveAddonsSumPerItem(ed1)
              ELSE m.liveAddonsSumPerItem,
              IF ed1.qty # ed0.qty THEN computeLiveQty(ed1) ELSE m.liveQty,
              IF newItems THEN computeSubTotal(items1) ELSE m.subTotal)

\* the values no render has computed yet differ from every computed value
NO_MEMO ==
  [subTotal |-> NaN, liveArea |-> NaN, liveAddonsSumPerItem |-> NaN,
   livePerItemPrice |-> NaN, liveQty |-> NaN, liveLineSubtotal |-> NaN]

\* the first render computes every value
FirstRender(ed, items) ==
  RenderLine(NO_MEMO, computeLiveArea(ed), computeLiveAddonsSumPerItem(ed),
             computeLivePerItemPrice(computeLiveArea(ed), ed,
                                     computeLiveAddonsSumPerItem(ed)),
             computeLiveQty(ed), computeSubTotal(items))

(***************************************************************************)
(* Effects on the profile selection                                        *)
(***************************************************************************)
findProfile(ps, id) ==
  IF \E i \in 1..Len(ps) : ps[i].id = id
  THEN ps[CHOOSE i \in 1..Len(ps) : ps[i].id = id /\ \A j \in 1..(i - 1) : ps[j].id # id]
  ELSE [id |-> 0]

\* setActiveProfileId((prev) => prev ?? (state.profiles[0]?.id ?? undefined))
defaultActiveProfile(prev, ps) ==
  IF prev # 0 THEN prev ELSE IF ps # <<>> THEN ps[1].id ELSE 0

\* useEffect on [activeProfileId, state.profiles]: copy the profile into the editor
applyProfile(ed, ps, active) ==
  LET p == findProfile(ps, active)
  IN  IF p.id # 0
      THEN [ed EXCEPT !.profileId = p.id, !.profileName = p.name,
                      !.unitPrice = numberToString(p.unitPrice)]
      ELSE [ed EXCEPT !.profileId = 0, !.profileName = Undefined]

\* the render after a changed selection, and the second effect run again
SettleSelection(m2, ed1, ed2, items1, act1) ==
  <<ed2, act1, Render(m2, ed1, ed2, FALSE, items1, FALSE)>>

\* the render after the effects of the first commit, which left ed1 and act1
SettleEffects(m1, ed0, ed1, items1, ps, act0, act1) ==
  SettleSelection(Render(m1, ed0, ed1, FALSE, items1, FALSE), ed1,
                  IF act1 # act0 THEN applyProfile(ed1, ps, act1) ELSE ed1,
                  items1, act1)

\* The renders and effects that follow a handler which left the editor ed0,
\* the selection act0 and the profile list ps (psChanged: a new array).
\* Both effects of a commit see that render's activeProfileId; a changed
\* selection causes one more render and one more run of the second effect.
\* Result: <<editor, activeProfileId, memo>>.
Settle(m0, edPrev, ed0, newAddons, items1, newItems, ps, psChanged, act0, actChanged) ==
  SettleEffects(Render(m0, edPrev, ed0, newAddons, items1, newItems), ed0,
                IF psChanged \/ actChanged THEN applyProfile(ed0, ps, act0)
                ELSE ed0,
                items1, ps, act0,
                IF psChanged THEN defaultActiveProfile(act0, ps) ELSE act0)

(***************************************************************************)
(* Handlers                                                                *)
(***************************************************************************)
\* what every handler leaves of the parsing pipeline, of the PDF export and
\* of the start of the application
ParseIdle == UNCHANGED parseVars /\ UNCHANGED pdfVars /\ UNCHANGED bootVars

\* what the renders after a handler leave, from the state the handler ran in
Settled(ed0, newAddons, items1, newItems, ps, psChanged, act0) ==
  Settle(memo, itemEditor, ed0, newAddons, items1, newItems, ps, psChanged,
         act0, act0 # activeProfileId)

\* install the editor, selection and cached values r = <<editor, id, memo>>
Install(r) ==
  /\ itemEditor' = r[1]
  /\ activeProfileId' = r[2]
  /\ memo' = r[3]

\* a handler's state after its renders and effects
Commit(ed0, newAddons, items1, newItems, ps, psChanged, act0) ==
  Install(Settled(ed0, newAddons, items1, newItems, ps, psChanged, act0))

\* setItemEditor({ ...itemEditor, <field>: v }) of a text field of the editor
EditorInput(ed1) ==
  /\ Commit(ed1, FALSE, current.items, FALSE, profiles, FALSE, activeProfileId)
  /\ UNCHANGED <<customers, quotes, profiles, current, profileDraft, nextId>>
  /\ ParseIdle

SetWidthCm(v) == EditorInput([itemEditor EXCEPT !.widthCm = v])

SetHeightCm(v) == EditorInput([itemEditor EXCEPT !.heightCm = v])

SetQty(v) == EditorInput([itemEditor EXCEPT !.qty = v])

SetUnitPrice(v) == EditorInput([itemEditor EXCEPT !.unitPrice = v])

\* the add-on handlers install a new addons array
AddonInput(ed1) ==
  /\ Commit(ed1, TRUE, current.items, FALSE, profiles, FALSE, activeProfileId)
  /\ UNCHANGED <<customers, quotes, profiles, current, profileDraft, nextId>>
  /\ ParseIdle

ToggleAddon(idx) ==
  /\ idx \in 1..Len(itemEditor.addons)
  /\ AddonInput([itemEditor EXCEPT
                   !.addons[idx].checked = ~itemEditor.addons[idx].checked])

SetAddonPrice(idx, v) ==
  /\ idx \in 1..Len(itemEditor.addons)
  /\ AddonInput([itemEditor EXCEPT !.addons[idx].price = v])

\* the profile selector: setActiveProfileId(id || undefined)
SelectProfile(id) ==
  /\ id = 0 \/ \E i \in 1..Len(profiles) : profiles[i].id = id
  /\ Commit(itemEditor, FALSE, current.items, FALSE, profiles, FALSE, id)
  /\ UNCHANGED <<customers, quotes, profiles, current, profileDraft, nextId>>
  /\ ParseIdle

\* updateCurrent(key, val)
updateCurrent(cur1) ==
  /\ current' = cur1
  /\ Commit(itemEditor, FALSE, cur1.items, FALSE, profiles, FALSE, activeProfileId)
  /\ UNCHANGED <<customers, quotes, profiles, profileDraft, nextId>>
  /\ ParseIdle

SetCustomerName(v) == updateCurrent([current EXCEPT !.customerName = v])

SetCustomerPhone(v) == updateCurrent([current EXCEPT !.customerPhone = v])

SetCustomerEmail(v) == updateCurrent([current EXCEPT !.customerEmail = v])

SetCustomerNotes(v) == updateCurrent([current EXCEPT !.customerNotes = v])

SetTaxPercentText(v) == updateCurrent([current EXCEPT !.taxPercentText = v])

\* const qty = Math.max(0, parseLooseNumber(qtyText))
addItemQty(currentDraft) == MathMax(Whole(0), parseLooseNumber(currentDraft.qty))

\* the line item addItem(currentDraft) builds, with identifier id
newLineItem(currentDraft, id) ==
  LET w == parseLooseNumber(currentDraft.widthCm)
      h == parseLooseNumber(currentDraft.heightCm)
      qty == addItemQty(currentDraft)
      area == DivInt(Mul(w, h), 10000)
      addonsPerItem == addonsReduce(currentDraft.addons)
      unitPriceNum == parseLooseNumber(currentDraft.unitPrice)
      perItemPrice == Add(Mul(area, unitPriceNum), addonsPerItem)
  IN  [id |-> id, widthCm |-> currentDraft.widthCm,
       heightCm |-> currentDraft.heightCm, qty |-> currentDraft.qty,
       profileId |-> currentDraft.profileId,
       profileName |-> currentDraft.profileName,
       unitPrice |-> currentDraft.unitPrice,
       location |-> currentDraft.location, details |-> currentDraft.details,
       addons |-> currentDraft.addons,
       subtotal |-> Mul(perItemPrice, qty)]

\* addItem(itemEditor), then the editor is cleared
addItem ==
  /\ Len(current.items) < MaxItems
  /\ nextId <= MaxId
  /\ LET items1 == Append(current.items, newLineItem(itemEditor, nextId))
     IN  /\ current' = [current EXCEPT !.items = items1]
         /\ Commit(initItemEditor, TRUE, items1, TRUE, profiles, FALSE,
                   activeProfileId)
  /\ nextId' = nextId + 1
  /\ UNCHANGED <<customers, quotes, profiles, profileDraft>>
  /\ ParseIdle

keepOthers(items, id) ==
  SelectSeq(items, LAMBDA it : it.id # id)

\* the item is removed from the array the saved quotes share with the draft
removeItemInPlace(id) ==
  /\ \E i \in 1..Len(current.items) : current.items[i].id = id
  /\ LET items1 == keepOthers(current.items, id)
     IN  /\ current' = [current EXCEPT !.items = items1]
         /\ Commit(itemEditor, FALSE, items1, TRUE, profiles, FALSE,
                   activeProfileId)
  /\ quotes' = [k \in 1..Len(quotes) |->
                  [quotes[k] EXCEPT !.items = keepOthers(@, id)]]
  /\ UNCHANGED <<customers, profiles, profileDraft, nextId>>
  /\ ParseIdle

removeItem(id) ==
  /\ \E i \in 1..Len(current.items) : current.items[i].id = id
  /\ LET items1 == keepOthers(current.items, id)
     IN  /\ current' = [current EXCEPT !.items = items1]
         /\ Commit(itemEditor, FALSE, items1, TRUE, profiles, FALSE,
                   activeProfileId)
  /\ UNCHANGED <<customers, quotes, profiles, profileDraft, nextId>>
  /\ ParseIdle

startNewEmptyQuote ==
  /\ current' = [current EXCEPT !.customerName = <<>>, !.customerPhone = "",
                                !.customerEmail = "", !.customerNotes = "",
                                !.title = DEFAULT_TITLE, !.items = <<>>,
                                !.notes = ""]
  /\ Commit(initItemEditor, TRUE, <<>>, TRUE, profiles, FALSE, activeProfileId)
  /\ UNCHANGED <<customers, quotes, profiles, profileDraft, nextId>>
  /\ ParseIdle

(***************************************************************************)
(* Customers and quotes                                                    *)
(***************************************************************************)
\* index of the first element of seq with the given id, 0 when there is none
indexOfId(seq, id) ==
  IF \E i \in 1..Len(seq) : seq[i].id = id
  THEN CHOOSE i \in 1..Len(seq) : seq[i].id = id /\ \A j \in 1..(i - 1) : seq[j].id # id
  ELSE 0

\* variant of findCustomerByName that never finds a customer
findNoCustomer(cs, trimmed) == 0

\* state.customers.find((c) => c.name === trimmed): its index, 0 when absent
findCustomerByName(cs, trimmed) ==
  IF \E i \in 1..Len(cs) : cs[i].name = trimmed
  THEN CHOOSE i \in 1..Len(cs) : cs[i].name = trimmed /\ \A j \in 1..(i - 1) : cs[j].name # trimmed
  ELSE 0

\* a || b on texts held as atomic strings
orElse(a, b) == IF a # "" THEN a ELSE b

\* an absent optional argument (the draft's fields are always strings)
UndefinedText == "<undefined>"

\* a ?? b
nullish(a, b) == IF a = UndefinedText THEN b ELSE a

\* the record ensureCustomerByName merges for an existing customer
mergeCustomer(existing, phone, email, notes) ==
  [existing EXCEPT !.phone = orElse(phone, existing.phone),
                   !.email = orElse(email, existing.email),
                   !.notes = nullish(notes, existing.notes)]

\* ensureCustomerByName: <<the customer returned, state.customers afterwards>>
ensureCustomerByName(cs, name, phone, email, notes, freshId) ==
  LET trimmed == trim(name)
      i == findCustomerByName(cs, trimmed)
  IN  IF i # 0
      THEN LET updated == mergeCustomer(cs[i], phone, email, notes)
           IN  <<updated,
                 [k \in 1..Len(cs) |-> IF cs[k].id = updated.id THEN updated ELSE cs[k]]>>
      ELSE LET created == [id |-> freshId, name |-> trimmed, phone |-> phone,
                           email |-> email, notes |-> notes]
           IN  <<created, Append(cs, created)>>

\* variant of quotesNotOf that keeps every quote
quotesKept(qs, customerId) == qs

\* s.quotes.filter((q) => q.customerId !== id)
quotesNotOf(qs, customerId) ==
  SelectSeq(qs, LAMBDA q : q.customerId # customerId)

saveQuote ==
  IF trim(current.customerName) = <<>>
  THEN /\ UNCHANGED <<customers, quotes, profiles, current, itemEditor,
                      activeProfileId, profileDraft, memo, nextId>>
       /\ ParseIdle
  ELSE LET known == findCustomerByName(customers, trim(current.customerName)) # 0
           r == ensureCustomerByName(customers, current.customerName,
                                     current.customerPhone, current.customerEmail,
                                     current.customerNotes, nextId)
           customer == r[1]
           quoteId == IF known THEN nextId ELSE nextId + 1
           quote == [id |-> quoteId, customerId |-> customer.id,
                     title |-> orElse(current.title, DEFAULT_TITLE),
                     items |-> current.items,
                     taxPercent |-> parseLooseNumber(current.taxPercentText),
                     totals |-> [sub |-> subTotal, tax |-> taxValue,
                                 grand |-> grandTotal]]
       IN  /\ quoteId <= MaxId
           /\ customers' = r[2]
           /\ quotes' = Append(quotesNotOf(quotes, customer.id), quote)
           /\ nextId' = quoteId + 1
           /\ UNCHANGED <<profiles, current, itemEditor, activeProfileId,
                          profileDraft, memo>>
           /\ ParseIdle

\* q.items.map((it) => ({ ...it, id: uuid() }))
cloneItems(items, firstId) ==
  [k \in 1..Len(items) |-> [items[k] EXCEPT !.id = firstId + k - 1]]

\* the customer's quotes; at most one, so the sort by date has nothing to order
quotesOf(qs, customerId) ==
  SelectSeq(qs, LAMBDA q : q.customerId = customerId)

\* the setState of openLastQuoteForCustomer and the render that follows it
openLastQuoteSetState(customerId) ==
  LET qs == quotesOf(quotes, customerId)
      ci == indexOfId(customers, customerId)
  IN  IF qs = <<>> \/ ci = 0
      THEN UNCHANGED <<customers, quotes, profiles, current, itemEditor,
                       activeProfileId, profileDraft, memo, nextId>>
      ELSE LET q == qs[1]
               customer == customers[ci]
               items1 == cloneItems(q.items, nextId)
           IN  /\ nextId + Len(q.items) - 1 <= MaxId
               /\ current' = [current EXCEPT
                                !.customerName = customer.name,
                                !.customerPhone = customer.phone,
                                !.customerEmail = customer.email,
                                !.customerNotes = customer.notes,
                                !.items = items1,
                                !.title = q.title,
                                !.taxPercentText = numberToString(q.taxPercent)]
               /\ Commit(initItemEditor, TRUE, items1, TRUE, profiles, FALSE,
                         activeProfileId)
               /\ nextId' = nextId + Len(q.items)
               /\ UNCHANGED <<customers, quotes, profiles, profileDraft>>

openLastQuoteForCustomer(customerId) ==
  /\ openLastQuoteSetState(customerId)
  /\ ParseIdle

\* what generateAndExportPDF reads of a draft
exportPayload(draft) ==
  [customerName |-> draft.customerName, customerEmail |-> draft.customerEmail,
   taxPercentText |-> draft.taxPercentText, items |-> draft.items]

\* the export finds its page breaks with no item wrapping its details
noWrap(items) == [i \in 1..Len(items) |-> 0]

\* exportLastQuoteForCustomer: the callback handed to setTimeout is the
\* generateAndExportPDF of the render in which the button was clicked, and
\* the state it reads is the state of that render
exportLastQuoteForCustomer(customerId) ==
  /\ pdfPc = "idle"
  /\ IF quotesOf(quotes, customerId) = <<>>
     THEN /\ pdfLog' = Append(pdfLog, [op |-> "alert", msg |-> "noQuote"])
          /\ UNCHANGED <<pdfPc, pdfPayload, pdfEnv, pdfCursor, drawArgs>>
          /\ UNCHANGED appVars
     ELSE /\ openLastQuoteSetState(customerId)
          /\ pdfPc' = "import"
          /\ pdfPayload' = exportPayload(current)
          /\ \E ok \in BOOLEAN :
               pdfEnv' = [importOk |-> ok, variant |-> "current",
                          wrap |-> noWrap(current.items)]
          /\ UNCHANGED <<pdfCursor, pdfLog, drawArgs>>
  /\ UNCHANGED parseVars
  /\ UNCHANGED bootVars

\* confirmed: the answer to confirm()
deleteCustomer(customerId, confirmed) ==
  /\ indexOfId(customers, customerId) # 0
  /\ IF confirmed
     THEN /\ customers' = SelectSeq(customers, LAMBDA c : c.id # customerId)
          /\ quotes' = quotesNotOf(quotes, customerId)
     ELSE UNCHANGED <<customers, quotes>>
  /\ UNCHANGED <<profiles, current, itemEditor, activeProfileId, profileDraft,
                 memo, nextId>>
  /\ ParseIdle

(***************************************************************************)
(* PDF table (pdfExporter.ts): the numbers of one row                      *)
(***************************************************************************)
addonContributionPdf(a) ==
  IF a.checked THEN parseLooseNumberPdf(a.price) ELSE Whole(0)

\* it.addons.reduce((s, a) => s + (a.checked ? parseLooseNumber(a.price) : 0), 0)
RECURSIVE addonsReducePdf(_)
addonsReducePdf(addons) ==
  IF addons = <<>> THEN Whole(0)
  ELSE Add(addonsReducePdf(Front(addons)),
           addonContributionPdf(addons[Len(addons)]))

\* qty, perItemPrice and lineTotal of the row drawItemsTable draws for it
drawItemsTableRow(it) ==
  LET w == parseLooseNumberPdf(it.widthCm)
      h == parseLooseNumberPdf(it.heightCm)
      qty == MathMax(Whole(0), parseLooseNumberPdf(it.qty))
      area == DivInt(Mul(w, h), 10000)
      addonsSum == addonsReducePdf(it.addons)
      unitPriceNum == parseLooseNumberPdf(it.unitPrice)
      perItemPrice == Add(Mul(area, unitPriceNum), addonsSum)
  IN  [qty |-> qty, perItemPrice |-> perItemPrice,
       lineTotal |-> Mul(perItemPrice, qty)]

(***************************************************************************)
(* PDF export (pdfExporter.ts)                                             *)
(*                                                                         *)
(* Lengths are hundredths of a point.  A drawn text is a sequence of code  *)
(* points.  The document is the sequence pdfLog of the calls the export    *)
(* makes: alerts, fetches, text runs, table headers, rows, page breaks and *)
(* the save.  Fills, borders and font changes are part of the "header" and *)
(* "row" entries.  What jsPDF answers (the import, the page size, the      *)
(* number of lines doc.splitTextToSize wraps a cell into) is the           *)
(* environment pdfEnv.                                                     *)
(***************************************************************************)
PT == 100

\* jsPDF, format "a4", unit "pt": 595.28 x 841.89
pageWidth == 59528

pageHeight == 84189

marginX == 4000

marginTop == 4000

marginBottom == 4000

headerHeight == 2400

rowLineHeight == 1400

\* code point of a character of the model's texts
codePointAt(c) ==
  CASE c \in Digits -> 48 + DigitVal(c)
    [] c = " " -> 32
    [] c = "," -> 44
    [] c = "-" -> 45
    [] c = "." -> 46
    [] c = "A" -> 65
    [] c = "B" -> 66
    [] c = "א" -> 1488
    [] c = "₪" -> 8362

codePoints(text) == [i \in 1..Len(text) |-> codePointAt(text[i])]

\* /[֐-׿]/
HEBREW_REGEX == 1424..1535

isRTLText(text) == \E i \in 1..Len(text) : text[i] \in HEBREW_REGEX

\* an optional argument is the set of the values given for it: {} or {v}
optsAlign(opts, rtl) ==
  IF opts.align = {} THEN (IF rtl THEN "right" ELSE "left")
  ELSE CHOOSE a \in opts.align : TRUE

\* doc.setR2L(rtl); doc.text(text, x, y, { align })
docText(text, x, y, opts, rtl) ==
  [text |-> text, x |-> x, y |-> y, rtl |-> rtl, align |-> optsAlign(opts, rtl)]

\* rtl = isRTLText(text), whatever opts.forceRtl says
drawTextAuto(text, x, y, opts) == docText(text, x, y, opts, isRTLText(text))

drawTextSmart(text, x, y, opts) ==
  docText(text, x, y, opts,
          IF opts.forceRtl = {} THEN isRTLText(text) ELSE TRUE \in opts.forceRtl)

\* a text run of the document, with the place of the call that drew it
Run(role, run) == [op |-> "text", role |-> role, run |-> run]

\* `${moneyNumberFmt.format(value)} ₪`; the amounts of the modelled payloads
\* are short decimals below 1000, which Intl.NumberFormat writes as
\* String(value) does
moneyNumberFmt(value) == codePoints(numberToString(value))

formatMoneyPdf(value) == moneyNumberFmt(value) \o <<32, 8362>>

headerLines ==
  << <<1488, 1500, 1493, 1501, 32, 1505, 1502, 1506, 1488, 1503, 32, 1505,
       1488, 1502, 1497>>,
     <<1489, 1497, 1510, 1493, 1506, 32, 1506, 1489, 1493, 1491, 1493,
       1514, 32, 1488, 1500, 1493, 1502, 1497, 1504, 1497, 1493, 1501, 32,
       1493, 1514, 1512, 1497, 1505>>,
     <<1508, 1505, 1493, 1496, 1492, 32, 32, 32, 1514, 46, 1491, 32, 53,
       50, 56, 32, 32, 32, 32, 32, 32, 32, 32, 32, 32, 32, 32, 32, 1496,
       1500, 47, 1508, 1511, 1505, 32, 58, 32, 57, 56, 55, 48, 57, 51, 51,
       32, 32, 32, 32, 32, 32, 32, 32, 32, 32, 1504, 1497, 1497, 1491, 48,
       53, 50, 54, 52, 55, 53, 53, 51, 49>>,
     <<1506, 46, 1502, 46, 32, 1502, 1505, 39, 32, 48, 50, 51, 49, 48, 55,
       54, 53, 57>> >>

\* the labels the export draws: table header cells, totals box, footer
pdfLabels ==
  [num |-> <<1502, 1505, 1523>>,
   profile |-> <<1508, 1512, 1493, 1508, 1497, 1500>>,
   dims |-> <<1502, 1497, 1491, 1493, 1514, 32, 41, 1505, 1524, 1502, 40>>,
   location |-> <<1502, 1497, 1511, 1493, 1501>>,
   details |-> <<1508, 1512, 1496, 1497, 1501>>,
   unitPrice |-> <<1502, 1495, 1497, 1512, 32, 1500, 1497, 1495, 1523>>,
   qty |-> <<1499, 1502, 1493, 1514>>,
   total |-> <<1505, 1492, 1524, 1499>>,
   sub |-> <<1502, 1495, 1497, 1512, 58, 32>>,
   vat |-> <<1502, 1506, 1524, 1502, 58, 32>>,
   grand |-> <<1505, 1492, 1524, 1499, 32, 1500, 1514, 1513, 1500, 1493,
               1501, 58, 32>>,
   date |-> <<1514, 1488, 1512, 1497, 1498, 58, 32>>,
   signature |-> <<1495, 1514, 1497, 1502, 1492, 58>>]

\* columns from right to left; the earlier variant has no profile column
columns(variant) ==
  IF variant = "earlier"
  THEN <<"num", "dims", "location", "details", "unitPrice", "qty", "total">>
  ELSE <<"num", "profile", "dims", "location", "details", "unitPrice", "qty",
         "total">>

colWidths(variant) ==
  IF variant = "earlier"
  THEN [num |-> 25 * PT, dims |-> 80 * PT, location |-> 80 * PT,
        details |-> 140 * PT, unitPrice |-> 75 * PT, qty |-> 40 * PT,
        total |-> 90 * PT]
  ELSE [num |-> 25 * PT, profile |-> 70 * PT, dims |-> 65 * PT,
        location |-> 70 * PT, details |-> 130 * PT, unitPrice |-> 60 * PT,
        qty |-> 30 * PT, total |-> 65 * PT]

\* colWidths of the first k columns from the right
RECURSIVE widthsRightOf(_, _)
widthsRightOf(variant, k) ==
  IF k = 0 THEN 0
  ELSE widthsRightOf(variant, k - 1) + colWidths(variant)[columns(variant)[k]]

columnIndex(variant, c) ==
  CHOOSE k \in 1..Len(columns(variant)) : columns(variant)[k] = c

\* colX[c]: right - colWidths.num - ... , the widths of the columns right of c
colX(variant, c) ==
  (pageWidth - marginX) - widthsRightOf(variant, columnIndex(variant, c) - 1)

optsRight == [align |-> {"right"}, forceRtl |-> {}]

optsRightLtr == [align |-> {"right"}, forceRtl |-> {FALSE}]

\* drawHeader: page break when the header does not fit
headerBreaks(y) == y + headerHeight > pageHeight - marginBottom

headerTop(y) == IF headerBreaks(y) THEN marginTop ELSE y

headerCells(variant, centerY) ==
  [k \in 1..Len(columns(variant)) |->
     Run("th", drawTextSmart(pdfLabels[columns(variant)[k]],
                             colX(variant, columns(variant)[k]) - 4 * PT,
                             centerY, optsRight))]

headerAt(variant, top) ==
  <<[op |-> "header", top |-> top, height |-> headerHeight]>>
    \o headerCells(variant, top + headerHeight \div 2 + 4 * PT)

\* the calls of drawHeader() when the table stands at y; y is then
\* headerTop(y) + headerHeight
drawHeader(variant, y) ==
  (IF headerBreaks(y) THEN <<[op |-> "addPage"]>> ELSE <<>>)
    \o headerAt(variant, headerTop(y))

\* Math.max(1, profileLines.length, locationLines.length,
\*          detailsLines.length, dimsLines.length): the modelled items have
\* no profile name and no location, and their dimensions fit one line
linesCount(detailsLines) == IF detailsLines > 1 THEN detailsLines ELSE 1

rowHeight(detailsLines) == linesCount(detailsLines) * rowLineHeight + 6 * PT

rowBreaks(y, detailsLines) ==
  y + rowHeight(detailsLines) > pageHeight - marginBottom

\* y after "doc.addPage(); y = marginTop; drawHeader();"
rowTop(y, detailsLines) ==
  IF rowBreaks(y, detailsLines) THEN headerTop(marginTop) + headerHeight ELSE y

\* the row of item number idx with the numbers n = drawItemsTableRow(it)
rowCells(variant, n, idx, detailsLines, top, baseline) ==
  << [op |-> "row", idx |-> idx, top |-> top,
      height |-> rowHeight(detailsLines)],
     Run("num", drawTextSmart(codePoints(natToText(idx)),
                              colX(variant, "num") - 4 * PT, baseline,
                              optsRight)),
     [op |-> "cell", col |-> "dims", lines |-> 1, y |-> baseline],
     [op |-> "cell", col |-> "details", lines |-> detailsLines,
      y |-> baseline],
     Run("unitPrice", drawTextSmart(formatMoneyPdf(n.perItemPrice),
                                    colX(variant, "unitPrice") - 4 * PT,
                                    baseline, optsRightLtr)),
     Run("qty", drawTextSmart(moneyNumberFmt(n.qty),
                              colX(variant, "qty") - 4 * PT, baseline,
                              optsRightLtr)),
     Run("total", drawTextSmart(formatMoneyPdf(n.lineTotal),
                                colX(variant, "total") - 4 * PT, baseline,
                                optsRightLtr)) >>

\* the page break adds the page and does not draw the header again
drawRowNoHeader(variant, it, idx, detailsLines, y) ==
  (IF rowBreaks(y, detailsLines) THEN <<[op |-> "addPage"]>> ELSE <<>>)
    \o rowCells(variant, drawItemsTableRow(it), idx, detailsLines,
                rowTop(y, detailsLines),
                rowTop(y, detailsLines) + rowLineHeight + 2 * PT)

\* one turn of items.forEach when the table stands at y
drawRow(variant, it, idx, detailsLines, y) ==
  (IF rowBreaks(y, detailsLines)
   THEN <<[op |-> "addPage"]>> \o drawHeader(variant, marginTop)
   ELSE <<>>)
    \o rowCells(variant, drawItemsTableRow(it), idx, detailsLines,
                rowTop(y, detailsLines),
                rowTop(y, detailsLines) + rowLineHeight + 2 * PT)

\* what an item adds to sub: its subtotal number when it carries one, the
\* line total computed from its texts otherwise
itemSub(it) ==
  IF "subtotal" \in DOMAIN it THEN it.subtotal
  ELSE drawItemsTableRow(it).lineTotal

\* payload.items.reduce(...)
RECURSIVE payloadSub(_)
payloadSub(items) ==
  IF items = <<>> THEN Whole(0)
  ELSE Add(payloadSub(Front(items)), itemSub(items[Len(items)]))

\* sub, vat and grand of the totals box
pdfTotals(payload) ==
  [sub |-> payloadSub(payload.items),
   tax |-> Mul(payloadSub(payload.items),
               normalizeTaxPercentPdf(
                 parseLooseNumberPdf(payload.taxPercentText))),
   grand |-> Add(payloadSub(payload.items),
                 Mul(payloadSub(payload.items),
                     normalizeTaxPercentPdf(
                       parseLooseNumberPdf(payload.taxPercentText))))]

\* the three lines of the totals box, boxY = cursorY + 18 + 26
totalsBox(sub, vat, boxY) ==
  << Run("sub", drawTextSmart(pdfLabels.sub \o formatMoneyPdf(sub),
                              marginX + 260 * PT - 12 * PT, boxY, optsRight)),
     Run("vat", drawTextSmart(pdfLabels.vat \o formatMoneyPdf(vat),
                              marginX + 260 * PT - 12 * PT, boxY + 22 * PT,
                              optsRight)),
     Run("grand", drawTextSmart(pdfLabels.grand
                                  \o formatMoneyPdf(Add(sub, vat)),
                                marginX + 260 * PT - 18 * PT,
                                boxY + 22 * PT + 24 * PT + 2 * PT,
                                optsRight)) >>

\* date line (its digits are left out) and signature label; the modelled
\* payloads carry no notes
footer(footerTop) ==
  << Run("date", drawTextSmart(pdfLabels.date, pageWidth - marginX, footerTop,
                               optsRight)),
     Run("signature", drawTextSmart(pdfLabels.signature, pageWidth - marginX,
                                    footerTop + 18 * PT + 6 * PT,
                                    optsRight)) >>

\* only the customer name is validated
validationAlertNameOnly(payload) ==
  IF trim(payload.customerName) = <<>> THEN "name" ELSE ""

\* the message of the abort path the payload takes, "" when it takes none
validationAlert(payload) ==
  IF trim(payload.customerName) = <<>> THEN "name"
  ELSE IF payload.items = <<>> THEN "empty"
  ELSE ""

\* what every step of the export leaves
PdfFrame ==
  /\ UNCHANGED appVars
  /\ UNCHANGED parseVars
  /\ UNCHANGED scriptVars
  /\ UNCHANGED <<pdfPayload, pdfEnv, drawArgs>>
  /\ UNCHANGED bootVars

\* the export stops with the message msg
pdfAbort(msg) ==
  /\ pdfLog' = Append(pdfLog, [op |-> "alert", msg |-> msg])
  /\ pdfPc' = "returned"
  /\ UNCHANGED pdfCursor

\* try { await import("jspdf") } catch { alert(...); return; }
importJsPdf ==
  /\ pdfPc = "import"
  /\ IF pdfEnv.importOk
     THEN pdfPc' = "validate" /\ UNCHANGED <<pdfLog, pdfCursor>>
     ELSE pdfAbort("jspdf")
  /\ PdfFrame

validatePayload ==
  /\ pdfPc = "validate"
  /\ IF validationAlert(pdfPayload) = ""
     THEN pdfPc' = "font" /\ UNCHANGED <<pdfLog, pdfCursor>>
     ELSE pdfAbort(validationAlert(pdfPayload))
  /\ PdfFrame

\* a fetch answers with ok, answers with an HTTP failure, or is rejected
FetchOutcomes == {"ok", "http", "rejected"}

\* ensureHebrewFont after the fetch: the font is registered, or the catch
\* block logs a warning
fontOps(outcome) ==
  IF outcome = "ok" THEN <<[op |-> "addFont"]>> ELSE <<[op |-> "warn"]>>

\* new jsPDF(...); await ensureHebrewFont(doc)
ensureHebrewFont ==
  /\ pdfPc = "font"
  /\ \E outcome \in FetchOutcomes :
       pdfLog' = pdfLog
                   \o <<[op |-> "fetch", url |-> "font", outcome |-> outcome]>>
                   \o fontOps(outcome)
  /\ pdfPc' = "header"
  /\ UNCHANGED pdfCursor
  /\ PdfFrame

optsCenter(forceRtl) == [align |-> {"center"}, forceRtl |-> forceRtl]

\* the four header lines, from cursorY = marginTop, 18 apart
documentHeader ==
  [k \in 1..Len(headerLines) |->
     Run("title", drawTextSmart(headerLines[k], pageWidth \div 2,
                                marginTop + (k - 1) * 18 * PT,
                                optsCenter({TRUE})))]

\* customer line and e-mail line; the modelled payloads carry no phone
customerBlock(name, email, cursorY) ==
  (IF name # <<>>
   THEN <<Run("customer", drawTextSmart(codePoints(name), pageWidth \div 2,
                                        cursorY, optsCenter({})))>>
   ELSE <<>>)
    \o (IF trim(email) # <<>>
        THEN <<Run("email",
                   drawTextSmart(codePoints(trim(email)), pageWidth \div 2,
                                 cursorY + (IF name # <<>> THEN 16 * PT ELSE 0),
                                 optsCenter({FALSE})))>>
        ELSE <<>>)

\* cursorY after the header lines, the customer block and the divider
tableStartY(name, email) ==
  marginTop + Len(headerLines) * 18 * PT + 10 * PT
    + (IF name # <<>> THEN 16 * PT ELSE 0)
    + (IF trim(email) # <<>> THEN 16 * PT ELSE 0)
    + 12 * PT

drawDocumentHeader ==
  /\ pdfPc = "header"
  /\ pdfLog' = pdfLog \o documentHeader
                 \o customerBlock(pdfPayload.customerName,
                                  pdfPayload.customerEmail,
                                  marginTop + Len(headerLines) * 18 * PT
                                    + 10 * PT)
  /\ pdfCursor' = [y |-> tableStartY(pdfPayload.customerName,
                                     pdfPayload.customerEmail),
                   idx |-> 1]
  /\ pdfPc' = "table"
  /\ PdfFrame

\* drawItemsTable: if (!items.length) return y; drawHeader();
drawTableHeader ==
  /\ pdfPc = "table"
  /\ IF pdfPayload.items = <<>>
     THEN pdfPc' = "totals" /\ UNCHANGED <<pdfLog, pdfCursor>>
     ELSE /\ pdfLog' = pdfLog \o drawHeader(pdfEnv.variant, pdfCursor.y)
          /\ pdfCursor' = [pdfCursor EXCEPT
                             !.y = headerTop(pdfCursor.y) + headerHeight]
          /\ pdfPc' = "rows"
  /\ PdfFrame

\* items.forEach: the row of the item pdfCursor.idx
drawTableRow ==
  /\ pdfPc = "rows"
  /\ pdfLog' = pdfLog \o drawRow(pdfEnv.variant,
                                 pdfPayload.items[pdfCursor.idx],
                                 pdfCursor.idx, pdfEnv.wrap[pdfCursor.idx],
                                 pdfCursor.y)
  /\ pdfCursor' = [y |-> rowTop(pdfCursor.y, pdfEnv.wrap[pdfCursor.idx])
                           + rowHeight(pdfEnv.wrap[pdfCursor.idx]),
                   idx |-> pdfCursor.idx + 1]
  /\ pdfPc' = IF pdfCursor.idx = Len(pdfPayload.items) THEN "totals"
              ELSE "rows"
  /\ PdfFrame

\* totals box and footer
drawTotals ==
  /\ pdfPc = "totals"
  /\ pdfLog' = pdfLog
                 \o totalsBox(payloadSub(pdfPayload.items),
                              Mul(payloadSub(pdfPayload.items),
                                  normalizeTaxPercentPdf(
                                    parseLooseNumberPdf(
                                      pdfPayload.taxPercentText))),
                              pdfCursor.y + 18 * PT + 26 * PT)
                 \o footer(pageHeight - marginBottom - 80 * PT)
  /\ pdfPc' = "signature"
  /\ UNCHANGED pdfCursor
  /\ PdfFrame

\* the image is placed whenever the fetch is not rejected
signatureOpsAnyResponse(outcome) ==
  IF outcome # "rejected" THEN <<[op |-> "addImage"]>> ELSE <<>>

\* if (sigResp.ok) { ... doc.addImage(...) }, inside try / catch
signatureOps(outcome) ==
  IF outcome = "ok" THEN <<[op |-> "addImage"]>> ELSE <<>>

\* the signature image below the signature label
fetchSignature ==
  /\ pdfPc = "signature"
  /\ \E outcome \in FetchOutcomes :
       pdfLog' = pdfLog
                   \o <<[op |-> "fetch", url |-> "signature",
                         outcome |-> outcome]>>
                   \o signatureOps(outcome)
  /\ pdfPc' = "save"
  /\ UNCHANGED pdfCursor
  /\ PdfFrame

\* the download through an object URL, or doc.save when that throws
androidSafeSave ==
  /\ pdfPc = "save"
  /\ \E blobOk \in BOOLEAN :
       pdfLog' = Append(pdfLog, [op |-> "save",
                                 via |-> IF blobOk THEN "a.click"
                                         ELSE "doc.save"])
  /\ pdfPc' = "saved"
  /\ UNCHANGED pdfCursor
  /\ PdfFrame

(***************************************************************************)
(* Settings dialog: profiles                                               *)
(***************************************************************************)
EMPTY_PROFILE_DRAFT == [id |-> 0, name |-> <<>>, unitPrice |-> <<>>]

NEW_PROFILE_NAME == <<"פ", "ר", "ו", "פ", "י", "ל", " ", "ח", "ד", "ש">>

ProfileDraftInput(d1) ==
  /\ profileDraft' = d1
  /\ UNCHANGED <<customers, quotes, profiles, current, itemEditor,
                 activeProfileId, memo, nextId>>
  /\ ParseIdle

SetProfileDraftName(v) == ProfileDraftInput([profileDraft EXCEPT !.name = v])

SetProfileDraftUnitPrice(v) ==
  ProfileDraftInput([profileDraft EXCEPT !.unitPrice = v])

editProfile(id) ==
  /\ indexOfId(profiles, id) # 0
  /\ LET p == profiles[indexOfId(profiles, id)]
     IN  ProfileDraftInput([id |-> p.id, name |-> p.name,
                            unitPrice |-> numberToString(p.unitPrice)])

closeSettings == ProfileDraftInput(EMPTY_PROFILE_DRAFT)

\* every committed item follows the profile it was added with
followProfiles(items, ps) ==
  [k \in 1..Len(items) |->
     IF findProfile(ps, items[k].profileId).id # 0
     THEN [items[k] EXCEPT
             !.profileName = findProfile(ps, items[k].profileId).name,
             !.unitPrice =
               numberToString(findProfile(ps, items[k].profileId).unitPrice)]
     ELSE items[k]]

\* the profile list is installed and the committed items follow it
ProfilesChangeLive(ps, act0) ==
  /\ profiles' = ps
  /\ current' = [current EXCEPT !.items = followProfiles(current.items, ps)]
  /\ Commit(itemEditor, FALSE, current'.items, TRUE, ps, TRUE, act0)
  /\ profileDraft' = EMPTY_PROFILE_DRAFT
  /\ UNCHANGED <<customers, quotes>>
  /\ ParseIdle

\* a handler that installs the profile list ps and the selection act0
ProfilesChange(ps, act0) ==
  /\ profiles' = ps
  /\ Commit(itemEditor, FALSE, current.items, FALSE, ps, TRUE, act0)
  /\ profileDraft' = EMPTY_PROFILE_DRAFT
  /\ UNCHANGED <<customers, quotes, current>>
  /\ ParseIdle

addProfile ==
  /\ nextId <= MaxId
  /\ LET trimmed == trim(profileDraft.name)
         name == IF trimmed # <<>> THEN trimmed ELSE NEW_PROFILE_NAME
         unitPrice == parseLooseNumber(profileDraft.unitPrice)
     IN  ProfilesChange(Append(profiles, [id |-> nextId, name |-> name,
                                          unitPrice |-> unitPrice]),
                        activeProfileId)
  /\ nextId' = nextId + 1

saveProfileEdit ==
  /\ profileDraft.id # 0
  /\ LET trimmed == trim(profileDraft.name)
         edited(p) == [p EXCEPT
                         !.name = IF trimmed # <<>> THEN trimmed ELSE p.name,
                         !.unitPrice = parseLooseNumber(profileDraft.unitPrice)]
     IN  ProfilesChange([k \in 1..Len(profiles) |->
                           IF profiles[k].id = profileDraft.id
                           THEN edited(profiles[k]) ELSE profiles[k]],
                        activeProfileId)
  /\ UNCHANGED nextId

\* the dialog's draft is left as it is
deleteProfile(id) ==
  /\ indexOfId(profiles, id) # 0
  /\ profiles' = SelectSeq(profiles, LAMBDA p : p.id # id)
  /\ Commit(itemEditor, FALSE, current.items, FALSE, profiles', TRUE,
            IF activeProfileId = id THEN 0 ELSE activeProfileId)
  /\ UNCHANGED <<customers, quotes, current, profileDraft, nextId>>
  /\ ParseIdle

(***************************************************************************)
(* Initial state: DEFAULT_STATE after the first render and its effects     *)
(***************************************************************************)
Mounted ==
  Settle(FirstRender(initItemEditor, <<>>), initItemEditor, initItemEditor,
         FALSE, <<>>, FALSE, defaultProfiles, TRUE, 0, TRUE)

AppInit ==
  /\ customers = <<>>
  /\ quotes = <<>>
  /\ profiles = defaultProfiles
  /\ current = DEFAULT_CURRENT
  /\ itemEditor = Mounted[1]
  /\ activeProfileId = Mounted[2]
  /\ memo = Mounted[3]
  /\ profileDraft = EMPTY_PROFILE_DRAFT
  /\ nextId = Len(defaultProfiles) + 1
  /\ formStep = 0
  /\ dialogStep = 0

ParseNotUsed ==
  /\ parseIn = Null
  /\ parsePc = "idle"
  /\ parseOut = <<>>
  /\ taxOut = <<>>

\* exportQuotePdf has not been called
PdfNotUsed ==
  /\ pdfPc = "idle"
  /\ pdfPayload = <<>>
  /\ pdfEnv = <<>>
  /\ pdfCursor = <<>>
  /\ pdfLog = <<>>
  /\ drawArgs = <<>>

\* the application has started on an empty storage; what it writes there is
\* followed only in the specification of the start
StorageNotUsed ==
  /\ storage = <<>>
  /\ bootPc = "running"

(***************************************************************************)
(* Start of the application: hydrateState and the autosave (App.tsx)       *)
(*                                                                         *)
(* A stored text is a record: kind "null" when localStorage holds nothing  *)
(* under the key, kind "text" with its characters when JSON.parse rejects  *)
(* it, kind "json" with the parsed value when JSON.parse accepts it.  Of a *)
(* parsed value the model keeps whether it is an object, its customers and *)
(* the customer name of its draft, each present or not.  storage.full says *)
(* that setItem on the backup key throws (the quota is used up).           *)
(***************************************************************************)
NoValue == [isObject |-> FALSE, customers |-> {}, customerName |-> {}]

StoredNull == [kind |-> "null", text |-> <<>>, value |-> NoValue]

StoredText(text) == [kind |-> "text", text |-> text, value |-> NoValue]

StoredJson(value) == [kind |-> "json", text |-> <<>>, value |-> value]

\* if (!raw): null or the empty text
rawIsFalsy(raw) == raw.kind = "null" \/ (raw.kind = "text" /\ raw.text = <<>>)

\* JSON.parse(raw) throws
jsonParseThrows(raw) == raw.kind = "text"

DEFAULT_STATE ==
  [customers |-> <<>>, quotes |-> <<>>, profiles |-> defaultProfiles,
   current |-> DEFAULT_CURRENT]

\* the state hydrateState builds from a parsed value
safeState(parsed) ==
  [customers |-> IF parsed.isObject /\ parsed.customers # {}
                 THEN CHOOSE c \in parsed.customers : TRUE ELSE <<>>,
   quotes |-> <<>>,
   profiles |-> defaultProfiles,
   current |-> [DEFAULT_CURRENT EXCEPT
                  !.customerName =
                    IF parsed.isObject /\ parsed.customerName # {}
                    THEN CHOOSE n \in parsed.customerName : TRUE ELSE <<>>]]

hydratedState(raw) ==
  IF rawIsFalsy(raw) \/ jsonParseThrows(raw) THEN DEFAULT_STATE
  ELSE safeState(raw.value)

\* hydrateState leaves the storage as it found it
storageUntouched(st) == st

\* catch (e) { try { localStorage.setItem(LS_KEY + ":backup", raw) } catch {} }
storageAfterHydrate(st) ==
  IF ~rawIsFalsy(st.main) /\ jsonParseThrows(st.main)
       /\ ~st.full
  THEN [st EXCEPT !.backup = st.main]
  ELSE st

\* useState(() => hydrateState()) and the first render with its effects
hydrateState ==
  /\ bootPc = "stored"
  /\ bootPc' = "hydrated"
  /\ storage' = storageAfterHydrate(storage)
  /\ customers' = hydratedState(storage.main).customers
  /\ quotes' = hydratedState(storage.main).quotes
  /\ profiles' = hydratedState(storage.main).profiles
  /\ current' = hydratedState(storage.main).current
  /\ UNCHANGED <<itemEditor, activeProfileId, memo, profileDraft, nextId>>
  /\ UNCHANGED parseVars
  /\ UNCHANGED pdfVars
  /\ UNCHANGED scriptVars

\* JSON.stringify(state)
stringifyState ==
  StoredJson([isObject |-> TRUE, customers |-> {customers},
              customerName |-> {current.customerName}])

\* useEffect on [state]: localStorage.setItem(LS_KEY, JSON.stringify(state))
autosave ==
  /\ bootPc = "hydrated"
  /\ bootPc' = "autosaved"
  /\ storage' = [storage EXCEPT !.main = stringifyState]
  /\ UNCHANGED appVars
  /\ UNCHANGED parseVars
  /\ UNCHANGED pdfVars
  /\ UNCHANGED scriptVars

(***************************************************************************)
(* The application: quote life cycle                                       *)
(***************************************************************************)
IdsOf(seq) == {seq[i].id : i \in 1..Len(seq)}

\* a handler run while the user types the item form in any order
Free(A) == A /\ UNCHANGED scriptVars

\* texts the user types in this specification
WidthTexts == {<<"1", "0", "0">>}

HeightTexts == {<<"2", "0", "0">>}

TaxTexts == {<<"0", ".", "1", "8">>, <<"-", "5">>}

NameTexts == {<<"A">>}

Init == AppInit /\ ParseNotUsed /\ PdfNotUsed /\ StorageNotUsed

Next ==
  \/ \E v \in WidthTexts : Free(SetWidthCm(v))
  \/ \E v \in HeightTexts : Free(SetHeightCm(v))
  \/ \E v \in NameTexts : Free(SetCustomerName(v))
  \/ \E v \in TaxTexts : Free(SetTaxPercentText(v))
  \/ Free(addItem)
  \/ \E id \in IdsOf(current.items) : Free(removeItem(id))
  \/ Free(startNewEmptyQuote)
  \/ Free(saveQuote)
  \/ \E id \in IdsOf(customers) : Free(openLastQuoteForCustomer(id))
  \/ \E id \in IdsOf(customers), ok \in BOOLEAN : Free(deleteCustomer(id, ok))

Spec == Init /\ [][Next]_vars

(***************************************************************************)
(* One line item: the user fills the item form from top to bottom, each    *)
(* field at most once, then works with the buttons                         *)
(***************************************************************************)
FormOrder == <<"customerName", "widthCm", "heightCm", "qty", "unitPrice",
               "addon1.checked", "addon2.checked", "addon1.price">>

FieldPos(order, f) == CHOOSE k \in 1..Len(order) : order[k] = f

\* typing the field f, which lies below every field typed so far
Typed(f, A) ==
  /\ formStep < FieldPos(FormOrder, f)
  /\ formStep' = FieldPos(FormOrder, f)
  /\ UNCHANGED dialogStep
  /\ A

\* a button, after which the form is not typed in again
Button(A) == formStep' = Len(FormOrder) + 1 /\ UNCHANGED dialogStep /\ A

LineNameTexts == {<<"A">>}

LineWidthTexts == {<<"1", "0", "0">>, <<"-", "5", "0">>}

LineHeightTexts == {<<"2", "0", "0">>}

LineQtyTexts == {<<"-", "5">>, <<>>, <<"3">>}

LineUnitPriceTexts == {<<"1", ",", "5">>}

LineAddonPriceTexts == {<<"3", "0", "0">>}

NextLine ==
  \/ \E v \in LineNameTexts : Typed("customerName", SetCustomerName(v))
  \/ \E v \in LineWidthTexts : Typed("widthCm", SetWidthCm(v))
  \/ \E v \in LineHeightTexts : Typed("heightCm", SetHeightCm(v))
  \/ \E v \in LineQtyTexts : Typed("qty", SetQty(v))
  \/ \E v \in LineUnitPriceTexts : Typed("unitPrice", SetUnitPrice(v))
  \/ Typed("addon1.checked", ToggleAddon(1))
  \/ Typed("addon2.checked", ToggleAddon(2))
  \/ \E v \in LineAddonPriceTexts : Typed("addon1.price", SetAddonPrice(1, v))
  \/ Button(addItem)
  \/ \E id \in IdsOf(current.items) : Button(removeItem(id))
  \/ Button(startNewEmptyQuote)
  \/ Button(saveQuote)
  \/ \E id \in IdsOf(customers) : Button(openLastQuoteForCustomer(id))
  \/ \E id \in IdsOf(customers), ok \in BOOLEAN : Button(deleteCustomer(id, ok))

SpecLine == Init /\ [][NextLine]_vars

(***************************************************************************)
(* Customers: the user types the customer fields and saves or deletes      *)
(***************************************************************************)
CustNameTexts == {<<>>, <<" ">>, <<"A">>, <<" ", "A", " ">>, <<"B">>}

PhoneTexts == {"", "050", "052"}

EmailTexts == {"", "a@b"}

NotesTexts == {"", "vip"}

NextCustomers ==
  \/ \E v \in CustNameTexts : Free(SetCustomerName(v))
  \/ \E v \in PhoneTexts : Free(SetCustomerPhone(v))
  \/ \E v \in EmailTexts : Free(SetCustomerEmail(v))
  \/ \E v \in NotesTexts : Free(SetCustomerNotes(v))
  \/ Free(saveQuote)
  \/ Free(startNewEmptyQuote)
  \/ \E id \in IdsOf(customers) : Free(openLastQuoteForCustomer(id))
  \/ \E id \in IdsOf(customers), ok \in BOOLEAN : Free(deleteCustomer(id, ok))

SpecCustomers == Init /\ [][NextCustomers]_vars

(***************************************************************************)
(* Items through the whole life cycle: the user fills the item form once   *)
(* and then uses the buttons; at any time in between the user goes once    *)
(* through the settings dialog                                             *)
(***************************************************************************)
ItemsOrder == <<"customerName", "widthCm", "heightCm", "qty", "addon1.checked">>

DialogOrder == <<"edit", "name", "unitPrice", "save", "add", "delete">>

Step(f, A) ==
  /\ formStep < FieldPos(ItemsOrder, f)
  /\ formStep' = FieldPos(ItemsOrder, f)
  /\ UNCHANGED dialogStep
  /\ A

Press(A) == formStep' = Len(ItemsOrder) + 1 /\ UNCHANGED dialogStep /\ A

\* the step f of the settings dialog, which comes after every step taken so far
Dialog(f, A) ==
  /\ dialogStep < FieldPos(DialogOrder, f)
  /\ dialogStep' = FieldPos(DialogOrder, f)
  /\ UNCHANGED formStep
  /\ A

ProfilePicks == {1}

ProfileNameTexts == {<<"B">>}

ProfilePriceTexts == {<<"1", ",", "5">>}

ItemsQtyTexts == {<<"-", "5">>}

NextItems ==
  \/ \E v \in NameTexts : Step("customerName", SetCustomerName(v))
  \/ \E v \in WidthTexts : Step("widthCm", SetWidthCm(v))
  \/ \E v \in HeightTexts : Step("heightCm", SetHeightCm(v))
  \/ \E v \in ItemsQtyTexts : Step("qty", SetQty(v))
  \/ Step("addon1.checked", ToggleAddon(1))
  \/ Press(addItem)
  \/ \E id \in IdsOf(current.items) : Press(removeItem(id))
  \/ Press(startNewEmptyQuote)
  \/ Press(saveQuote)
  \/ \E id \in IdsOf(customers) : Press(openLastQuoteForCustomer(id))
  \/ \E id \in IdsOf(customers), ok \in BOOLEAN : Press(deleteCustomer(id, ok))
  \/ \E id \in IdsOf(profiles) \cap ProfilePicks : Dialog("edit", editProfile(id))
  \/ \E v \in ProfileNameTexts : Dialog("name", SetProfileDraftName(v))
  \/ \E v \in ProfilePriceTexts : Dialog("unitPrice", SetProfileDraftUnitPrice(v))
  \/ Dialog("save", saveProfileEdit)
  \/ Dialog("add", addProfile)
  \/ \E id \in IdsOf(profiles) \cap ProfilePicks : Dialog("delete", deleteProfile(id))

SpecItems == Init /\ [][NextItems]_vars

(***************************************************************************)
(* The parsing functions on their own: a text is parsed by both            *)
(* parseLooseNumber definitions, the numbers are then normalised as a tax  *)
(***************************************************************************)
ParseAlphabet == {"1", "5", ",", ".", "-", " ", "a"}

ParseExamples ==
  { Null,
    <<"1", ",", "2", "3", "4", ".", "5", "₪">>,
    <<"1", "8">>, <<"0", ".", "1", "8">>, <<"0">>, <<"-", "0">>,
    <<"a", "b", "c">>, <<"-", "-", "5">>, <<"₪", " ", "1", "2", ",", "5", "0">>,
    <<"1", ".", "5", ".", "5">>, <<"₪", " ", "1", ",", "5", ",", "5">> }

ParseInputs ==
  ParseExamples \cup UNION {[1..k -> ParseAlphabet] : k \in 0..MaxLen}

InitParse ==
  /\ AppInit
  /\ parseIn \in ParseInputs
  /\ parsePc = "input"
  /\ parseOut = <<>>
  /\ taxOut = <<>>
  /\ PdfNotUsed
  /\ StorageNotUsed

ParseStep ==
  /\ parsePc = "input"
  /\ parsePc' = "parsed"
  /\ parseOut' = [cleaned |-> IF parseIn = Null THEN <<>> ELSE cleaned(parseIn),
                  app |-> parseLooseNumber(parseIn),
                  pdf |-> parseLooseNumberPdf(parseIn)]
  /\ UNCHANGED <<parseIn, taxOut, formStep, dialogStep>>
  /\ UNCHANGED appVars
  /\ UNCHANGED pdfVars
  /\ UNCHANGED bootVars

NormalizeStep ==
  /\ parsePc = "parsed"
  /\ parsePc' = "normalized"
  /\ taxOut' = [app |-> normalizeTaxPercent(parseOut.app),
                pdf |-> normalizeTaxPercentPdf(parseOut.pdf)]
  /\ UNCHANGED <<parseIn, parseOut, formStep, dialogStep>>
  /\ UNCHANGED appVars
  /\ UNCHANGED pdfVars
  /\ UNCHANGED bootVars

NextParse == ParseStep \/ NormalizeStep

SpecParse == InitParse /\ [][NextParse]_vars

(***************************************************************************)
(* The PDF export: exportQuotePdf runs once on a payload, in an            *)
(* environment that answers the import and wraps the details of each item  *)
(***************************************************************************)
PdfItem ==
  [widthCm |-> <<"1", "0", "0">>, heightCm |-> <<"5", "0">>, qty |-> <<"2">>,
   unitPrice |-> <<"1", "0">>, addons |-> <<>>]

PdfNames == {<<>>, <<" ">>, <<"A">>, <<"א">>}

PdfEmails == {<<>>, <<"B">>}

\* lines the details of an item wrap into: none, a third of a page, most of
\* a page, more than a page holds below the table header
DetailsLines == {0, 20, 45, 53}

PdfPayloads ==
  {[customerName |-> nm, customerEmail |-> em, taxPercentText |-> <<"1", "7">>,
    items |-> [i \in 1..n |-> PdfItem]] :
     nm \in PdfNames, em \in PdfEmails, n \in 0..MaxRows}

PdfEnvs(payload) ==
  {[importOk |-> ok, variant |-> v, wrap |-> w] :
     ok \in BOOLEAN, v \in {"current", "earlier"},
     w \in [1..Len(payload.items) -> DetailsLines]}

InitPdf ==
  /\ AppInit
  /\ ParseNotUsed
  /\ StorageNotUsed
  /\ pdfPc = "import"
  /\ pdfPayload \in PdfPayloads
  /\ pdfEnv \in PdfEnvs(pdfPayload)
  /\ pdfCursor = <<>>
  /\ pdfLog = <<>>
  /\ drawArgs = <<>>

NextPdf ==
  \/ importJsPdf
  \/ validatePayload
  \/ ensureHebrewFont
  \/ drawDocumentHeader
  \/ drawTableHeader
  \/ drawTableRow
  \/ drawTotals
  \/ fetchSignature
  \/ androidSafeSave

SpecPdf == InitPdf /\ [][NextPdf]_vars

(***************************************************************************)
(* drawTextSmart on its own: one call on a text and its options            *)
(***************************************************************************)
\* empty, digits, the characters around the Hebrew block, mixed texts
TextExamples ==
  {<<>>, <<49, 50>>, <<1423>>, <<1424>>, <<1535>>, <<1536>>, <<65, 1488>>,
   <<53, 32, 8362>>, pdfLabels.sub}

DrawOpts ==
  {[align |-> a, forceRtl |-> f] :
     a \in {{}, {"left"}, {"right"}, {"center"}},
     f \in {{}, {TRUE}, {FALSE}}}

InitText ==
  /\ AppInit
  /\ ParseNotUsed
  /\ StorageNotUsed
  /\ pdfPc = "text"
  /\ drawArgs \in {[text |-> t, x |-> marginX, y |-> marginTop, opts |-> o] :
                     t \in TextExamples, o \in DrawOpts}
  /\ pdfPayload = <<>>
  /\ pdfEnv = <<>>
  /\ pdfCursor = <<>>
  /\ pdfLog = <<>>

drawTextStep ==
  /\ pdfPc = "text"
  /\ pdfLog' = <<Run("text", drawTextSmart(drawArgs.text, drawArgs.x,
                                           drawArgs.y, drawArgs.opts))>>
  /\ pdfPc' = "drawn"
  /\ UNCHANGED pdfCursor
  /\ PdfFrame

NextText == drawTextStep

SpecText == InitText /\ [][NextText]_vars

(***************************************************************************)
(* The start: the application is loaded on a storage that holds nothing, a *)
(* text JSON.parse rejects, or a stored document                           *)
(***************************************************************************)
CorruptAlphabet == {"{", "a"}

\* the empty text and the texts over the alphabet, none of which is JSON
CorruptTexts == UNION {[1..k -> CorruptAlphabet] : k \in 0..MaxLen}

StoredCustomer ==
  [id |-> 1, name |-> <<"A">>, phone |-> "", email |-> "", notes |-> ""]

\* a number, an empty object, an object with a customer and a draft name
StoredValues ==
  {NoValue,
   [isObject |-> TRUE, customers |-> {}, customerName |-> {}],
   [isObject |-> TRUE, customers |-> {<<StoredCustomer>>},
    customerName |-> {<<"B">>}]}

StoredTexts ==
  {StoredNull} \cup {StoredText(t) : t \in CorruptTexts}
    \cup {StoredJson(v) : v \in StoredValues}

InitBoot ==
  /\ AppInit
  /\ ParseNotUsed
  /\ PdfNotUsed
  /\ bootPc = "stored"
  /\ storage \in {[main |-> m, backup |-> b, full |-> f] :
                    m \in StoredTexts,
                    b \in {StoredNull, StoredText(<<"a", "a">>)},
                    f \in BOOLEAN}

NextBoot == hydrateState \/ autosave

SpecBoot == InitBoot /\ [][NextBoot]_vars

(***************************************************************************)
(* Export from the customers page: the user builds and saves a quote, goes *)
(* on editing the draft, and exports the last quote of a customer; the     *)
(* timer fires before the next event of the user                           *)
(***************************************************************************)
ExportNameTexts == {<<"A">>, <<"B">>}

ExportTaxTexts == {<<"1", "7">>, <<"5">>}

BeforeExport(A) == pdfPc = "idle" /\ A /\ UNCHANGED scriptVars

NextExport ==
  \/ \E v \in ExportNameTexts : BeforeExport(SetCustomerName(v))
  \/ \E v \in ExportTaxTexts : BeforeExport(SetTaxPercentText(v))
  \/ BeforeExport(addItem)
  \/ \E id \in IdsOf(current.items) : BeforeExport(removeItem(id))
  \/ BeforeExport(startNewEmptyQuote)
  \/ BeforeExport(saveQuote)
  \/ \E id \in IdsOf(customers) :
       exportLastQuoteForCustomer(id) /\ UNCHANGED scriptVars
  \/ importJsPdf
  \/ validatePayload

SpecExport == Init /\ [][NextExport]_vars

(***************************************************************************)
(* Round trip of a quote: the user builds a small quote, saves it, goes on *)
(* editing the draft and opens the saved quote again                       *)
(***************************************************************************)
RoundTripSizeTexts == {<<"1", "0">>}

\* percent, fraction, decimal comma, negative, and a fraction below 0.000001
RoundTripTaxTexts ==
  {<<"1", "7">>, <<"0", ".", "5">>, <<"1", ",", "5">>, <<"-", "5">>,
   <<".", "0", "0", "0", "0", "0", "0", "1">>}

RoundTripNameTexts == {<<"A">>, <<" ", "B">>}

\* in this specification formStep names the customer whose quote the last
\* handler opened, 0 when the last handler was another one
Editing(A) == A /\ formStep' = 0 /\ UNCHANGED dialogStep

Opening(id, A) == A /\ formStep' = id /\ UNCHANGED dialogStep

NextRoundTrip ==
  \/ \E v \in RoundTripNameTexts : Editing(SetCustomerName(v))
  \/ \E v \in RoundTripSizeTexts : Editing(SetWidthCm(v))
  \/ \E v \in RoundTripSizeTexts : Editing(SetHeightCm(v))
  \/ \E v \in RoundTripTaxTexts : Editing(SetTaxPercentText(v))
  \/ Editing(addItem)
  \/ \E id \in IdsOf(current.items) : Editing(removeItem(id))
  \/ Editing(saveQuote)
  \/ \E id \in IdsOf(customers) : Opening(id, openLastQuoteForCustomer(id))

SpecRoundTrip == Init /\ [][NextRoundTrip]_vars

(***************************************************************************)
(* Properties                                                              *)
(***************************************************************************)
ElementsOf(seq) == {seq[i] : i \in 1..Len(seq)}

\* the line items of the draft and of every saved quote
AllLineItems ==
  ElementsOf(current.items) \cup UNION {ElementsOf(quotes[k].items) : k \in 1..Len(quotes)}

\* sum of the prices of the first k add-ons that are checked
RECURSIVE CheckedPricesTo(_, _)
CheckedPricesTo(addons, k) ==
  IF k = 0 THEN Whole(0)
  ELSE Add(CheckedPricesTo(addons, k - 1),
           IF addons[k].checked THEN parseLooseNumber(addons[k].price)
           ELSE Whole(0))

\* max(0, x)
AtLeastZero(x) == IF Gt(Whole(0), x) THEN Whole(0) ELSE x

\* ((width * height) / 10000 * unitPrice + checked add-ons) * max(0, qty),
\* from the item's own stored texts
PricedFromOwnTexts(it) ==
  Mul(Add(Mul(DivInt(Mul(parseLooseNumber(it.widthCm),
                         parseLooseNumber(it.heightCm)), 10000),
              parseLooseNumber(it.unitPrice)),
          CheckedPricesTo(it.addons, Len(it.addons))),
      AtLeastZero(parseLooseNumber(it.qty)))

\* C1: every line item of the draft and of every saved quote has
\* subtotal = ((width * height) / 10000 * unitPrice + sum of the prices of its
\* checked add-ons) * max(0, qty), the numbers parsed from the item's own
\* stored texts, in every state reached through addItem, removeItem,
\* saveQuote, openLastQuoteForCustomer, startNewEmptyQuote and the adding,
\* editing and deleting of profiles.
C1_SubtotalInvariant ==
  \A it \in AllLineItems : it.subtotal = PricedFromOwnTexts(it)

\* C1 witness: a saved quote holds a priced item with a checked add-on made
\* from profile 1, the draft holds a copy of it under a new id, and
\* profile 1 has been deleted.
C1_Witness ==
  /\ 1 \notin IdsOf(profiles)
  /\ \E k \in 1..Len(quotes) : \E it \in ElementsOf(quotes[k].items) :
       /\ it.subtotal # Whole(0)
       /\ it.addons[1].checked
       /\ it.profileId = 1
       /\ \E c \in ElementsOf(current.items) :
            /\ c.id # it.id
            /\ c.widthCm = it.widthCm
            /\ c.subtotal = it.subtotal

\* sum of the stored subtotals of the first k items
RECURSIVE SubtotalsTo(_, _)
SubtotalsTo(items, k) ==
  IF k = 0 THEN Whole(0)
  ELSE Add(SubtotalsTo(items, k - 1), items[k].subtotal)

\* items whose stored subtotals are 100, 200 and 50
ExampleItems ==
  <<[subtotal |-> Whole(100)], [subtotal |-> Whole(200)], [subtotal |-> Whole(50)]>>

C3_AddItemMatchesLive ==
  [][addItem =>
       current'.items[Len(current'.items)].subtotal = memo.liveLineSubtotal]_vars

\* C3 witness: an item was added from an editor with width, height, unit
\* price and quantity typed and an add-on checked and re-priced.
C3_Witness ==
  \E it \in ElementsOf(current.items) :
    /\ it.qty = <<"3">>
    /\ it.unitPrice = <<"1", ",", "5">>
    /\ it.addons[1].checked
    /\ it.addons[1].price = <<"3", "0", "0">>
    /\ it.widthCm = <<"1", "0", "0">>
    /\ it.heightCm = <<"2", "0", "0">>
    /\ it.subtotal = Whole(909)

\* the contract: 0 for a value <= 0 or not finite, value / 100 for a value
\* above 1, the value itself in (0, 1]
TaxContract(x) ==
  IF ~isFinite(x) \/ ~Gt(x, Whole(0)) THEN Whole(0)
  ELSE IF Gt(x, Whole(1)) THEN DivInt(x, 100)
  ELSE x

\* C4: normalizeTaxPercent of App.tsx and of pdfExporter.ts both return 0 for
\* a value <= 0 or not finite, value / 100 for a value above 1 and the value
\* itself for a value in (0, 1].
C4_TaxContractBoth ==
  parsePc = "normalized" =>
    /\ taxOut.app = TaxContract(parseOut.app)
    /\ taxOut.pdf = TaxContract(parseOut.pdf)

\* the text 1,234.5 followed by the currency sign
ThousandsExample == <<"1", ",", "2", "3", "4", ".", "5", "₪">>

\* C5: parseLooseNumber of the text "1,234.5" followed by a currency sign,
\* where the comma separates thousands, is 1234.5.
C5_ThousandsSeparator ==
  (parsePc # "input" /\ parseIn = ThousandsExample) =>
    /\ parseOut.app = Num(12345, 10)
    /\ parseOut.pdf = Num(12345, 10)

\* positions of s that hold a digit, a comma, a period or a minus
KeptPositions(s) ==
  {i \in 1..Len(s) : s[i] \in Digits \cup {",", ".", "-"}}

\* the k-th kept position
KeptAt(s, k) ==
  CHOOSE i \in KeptPositions(s) :
    Cardinality({j \in KeptPositions(s) : j < i}) = k - 1

\* the kept characters in order, the first comma among them as a period
CleanedText(s) ==
  [k \in 1..Cardinality(KeptPositions(s)) |->
     IF s[KeptAt(s, k)] = "," /\ \A j \in KeptPositions(s) : j < KeptAt(s, k) => s[j] # ","
     THEN "." ELSE s[KeptAt(s, k)]]

AllDigits(t, from, to) == \A i \in from..to : t[i] \in Digits

\* t is a numeral: an optional minus, then digits with an optional period and
\* optional fraction digits, or a period and fraction digits
IsNumeral(t) ==
  \E sgn \in 0..1, ni \in 0..Len(t), dot \in 0..1, nf \in 0..Len(t) :
    /\ sgn + ni + dot + nf = Len(t)
    /\ ni + nf >= 1
    /\ dot = 0 => nf = 0
    /\ sgn = 1 => t[1] = "-"
    /\ AllDigits(t, sgn + 1, sgn + ni)
    /\ dot = 1 => t[sgn + ni + 1] = "."
    /\ AllDigits(t, sgn + ni + dot + 1, Len(t))

\* the digits of t read as one natural number
RECURSIVE DigitsOf(_)
DigitsOf(t) ==
  IF t = <<>> THEN 0
  ELSE IF t[Len(t)] \in Digits
       THEN 10 * DigitsOf(SubSeq(t, 1, Len(t) - 1)) + DigitVal(t[Len(t)])
       ELSE DigitsOf(SubSeq(t, 1, Len(t) - 1))

\* number of characters of t after its period, 0 without a period
FractionDigits(t) ==
  IF \E i \in 1..Len(t) : t[i] = "."
  THEN Len(t) - (CHOOSE i \in 1..Len(t) : t[i] = ".")
  ELSE 0

\* the number a numeral denotes
NumeralValue(t) ==
  Num((IF t[1] = "-" THEN -1 ELSE 1) * DigitsOf(t), Pow10(FractionDigits(t)))

\* lengths of the leading numerals of c
NumeralPrefixes(c) == {n \in 1..Len(c) : IsNumeral(SubSeq(c, 1, n))}

\* the value of the longest leading numeral of c, 0 when there is none
LongestNumeralValue(c) ==
  IF NumeralPrefixes(c) = {} THEN Whole(0)
  ELSE NumeralValue(SubSeq(c, 1, CHOOSE n \in NumeralPrefixes(c) :
                                    \A m \in NumeralPrefixes(c) : m <= n))

\* the text is empty or holds nothing but white space
Blank(s) == \A i \in 1..Len(s) : s[i] = " "

\* C6: parseLooseNumber (App.tsx and pdfExporter.ts) returns a number for
\* every text: it keeps the digits, commas, periods and minus signs, turns
\* the first comma only into a period, reads the longest leading numeral, and
\* returns 0 for null, an empty or white-space text, or when no number is left.
C6_ParseNeverFails ==
  parsePc # "input" =>
    /\ isFinite(parseOut.app) /\ isFinite(parseOut.pdf)
    /\ parseIn # Null => parseOut.cleaned = CleanedText(parseIn)
    /\ parseOut.app = IF parseIn = Null \/ Blank(parseIn) THEN Whole(0)
                      ELSE LongestNumeralValue(CleanedText(parseIn))
    /\ parseOut.pdf = parseOut.app

\* C6 witness: a text with a currency sign and two commas was parsed; only
\* the first comma became a period and the numeral ends at the second.
C6_Witness ==
  /\ parsePc = "parsed"
  /\ parseIn = <<"₪", " ", "1", ",", "5", ",", "5">>
  /\ parseOut.cleaned = <<"1", ".", "5", ",", "5">>
  /\ parseOut.app = Num(3, 2)

\* the quantity text is empty or parses to a negative number
QtyNegativeOrEmpty(it) ==
  it.qty = <<>> \/ Gt(Whole(0), parseLooseNumber(it.qty))

\* C7: for every line item whose quantity text is negative or empty, the
\* quantity addItem computes is 0 and the subtotal it stored is 0, and the
\* row of the PDF table has quantity 0 and line total 0.
C7_NoNegativeQuantity ==
  \A it \in AllLineItems :
    QtyNegativeOrEmpty(it) =>
      /\ addItemQty(it) = Whole(0)
      /\ it.subtotal = Whole(0)
      /\ drawItemsTableRow(it).qty = Whole(0)
      /\ drawItemsTableRow(it).lineTotal = Whole(0)

\* C7 witness: an item was added with the quantity text "-5" and a price per
\* item that is not zero.
C7_Witness ==
  \E it \in ElementsOf(current.items) :
    /\ it.qty = <<"-", "5">>
    /\ it.widthCm = <<"1", "0", "0">>
    /\ it.heightCm = <<"2", "0", "0">>
    /\ it.addons[1].checked
    /\ Gt(drawItemsTableRow(it).perItemPrice, Whole(0))
    /\ it.subtotal = Whole(0)

\* no two customer records share a name or an id
CustomersDistinct ==
  \A i, j \in 1..Len(customers) :
    i # j => customers[i].name # customers[j].name /\ customers[i].id # customers[j].id

\* stored names have no white space at either end
NamesTrimmed ==
  \A i \in 1..Len(customers) :
    /\ customers[i].name # <<>>
    /\ customers[i].name[1] # " "
    /\ customers[i].name[Len(customers[i].name)] # " "

\* the draft's customer name, trimmed, is the name of a stored customer
DraftNamesCustomer(i) ==
  /\ i \in 1..Len(customers)
  /\ trim(current.customerName) # <<>>
  /\ customers[i].name = trim(current.customerName)

\* saveQuote under the name of customer i adds no customer and files the
\* quote under that customer's id
SaveReusesCustomer ==
  \A i \in 1..Len(customers) :
    (DraftNamesCustomer(i) /\ saveQuote) =>
      /\ Len(customers') = Len(customers)
      /\ customers'[i].id = customers[i].id
      /\ quotes'[Len(quotes')].customerId = customers[i].id

\* C8: after any sequence of saveQuote, with names that may differ in leading
\* or trailing white space only, and deleteCustomer, no two customers have
\* the same name, stored names are trimmed, and saving under the trimmed name
\* of an existing customer reuses that customer's id.
C8_CustomerDedup ==
  [](CustomersDistinct /\ NamesTrimmed) /\ [][SaveReusesCustomer]_vars

\* C8 witness: the quote of customer A was saved again while the draft's
\* name is A with spaces around it, and A is still the only customer.
C8_Witness ==
  /\ Len(customers) = 1
  /\ current.customerName = <<" ", "A", " ">>
  /\ \E i \in 1..Len(customers) :
       /\ customers[i].name = <<"A">>
       /\ customers[i].phone = "052"
       /\ current.customerPhone = "052"
       /\ \E k \in 1..Len(quotes) :
            /\ quotes[k].customerId = customers[i].id
            /\ quotes[k].id > customers[i].id + 1

\* a || b as the claim states it: the new value when it is not empty
NewUnlessEmpty(new, old) == IF new # "" THEN new ELSE old

\* saveQuote under the name of customer i leaves each contact field as the
\* draft's value when that is not empty and as it was otherwise
SaveMergesContact ==
  \A i \in 1..Len(customers) :
    (DraftNamesCustomer(i) /\ saveQuote) =>
      /\ customers'[i].phone = NewUnlessEmpty(current.customerPhone, customers[i].phone)
      /\ customers'[i].email = NewUnlessEmpty(current.customerEmail, customers[i].email)
      /\ customers'[i].notes = NewUnlessEmpty(current.customerNotes, customers[i].notes)

\* C9: when saveQuote is called under the name of an existing customer, each
\* of phone, email and notes is afterwards the newly entered value if that is
\* not empty and the previous value otherwise.
C9_ContactMerge == [][SaveMergesContact]_vars

\* every saved quote belongs to a stored customer
QuotesHaveCustomers ==
  \A k \in 1..Len(quotes) : quotes[k].customerId \in IdsOf(customers)

\* a confirmed deleteCustomer removes the customer and the customer's quotes
\* and nothing else, a cancelled one changes nothing
DeleteCascades ==
  \A id \in IdsOf(customers) :
    /\ deleteCustomer(id, TRUE) =>
         /\ id \notin IdsOf(customers')
         /\ IdsOf(customers') = IdsOf(customers) \ {id}
         /\ \A k \in 1..Len(quotes') : quotes'[k].customerId # id
         /\ ElementsOf(quotes') = {q \in ElementsOf(quotes) : q.customerId # id}
    /\ deleteCustomer(id, FALSE) => UNCHANGED appVars

\* C10: in every reachable state every saved quote's customerId is the id of
\* a stored customer; a confirmed deleteCustomer removes the customer and all
\* its quotes in one step, a cancelled deleteCustomer changes nothing.
C10_QuotesHaveCustomers ==
  []QuotesHaveCustomers /\ [][DeleteCascades]_vars

\* C10 witness: two customers had saved quotes, one customer was deleted and
\* only the other's quote is left.
C10_Witness ==
  /\ Len(customers) = 1
  /\ Len(quotes) = 1
  /\ quotes[1].customerId = customers[1].id
  /\ customers[1].id > Len(defaultProfiles) + 2

\* a quote of this step's start is still stored, unchanged, at its end, unless
\* its customer was deleted in the step
QuotesPersist ==
  \A q \in ElementsOf(quotes) :
    q \in ElementsOf(quotes') \/ q.customerId \notin IdsOf(customers')

\* C11: a quote created by saveQuote stays in state.quotes unchanged until its
\* customer is deleted; no other operation, a later saveQuote for the same
\* customer included, removes or replaces it.
C11_QuotesPersist == [][QuotesPersist]_vars

\* the draft's customer name is blank or the draft holds no item
SavePreconditionFails ==
  trim(current.customerName) = <<>> \/ current.items = <<>>

\* C12: saveQuote called while the draft's customer name is empty or white
\* space, or while the draft's item list is empty, aborts: state.customers
\* and state.quotes are as before the call.
C12_SaveAbortsCleanly ==
  [][(SavePreconditionFails /\ saveQuote) => UNCHANGED <<customers, quotes>>]_vars

\* a reason for which exportQuotePdf must abort
PdfAbortCause ==
  \/ ~pdfEnv.importOk
  \/ trim(pdfPayload.customerName) = <<>>
  \/ pdfPayload.items = <<>>

\* C13: when the import of the PDF dependency fails, the customer name is
\* empty or whitespace-only, or the item list is empty, exportQuotePdf
\* returns before the font is fetched, and all it has done when it returns
\* is show one message: no draw operation, no fetch and no save.
C13_AbortPaths ==
  PdfAbortCause =>
    /\ pdfPc \in {"import", "validate", "returned"}
    /\ \A i \in 1..Len(pdfLog) : pdfLog[i].op = "alert"
    /\ Len(pdfLog) = (IF pdfPc = "returned" THEN 1 ELSE 0)

\* the export has returned on an empty item list, import and name being fine
C13_Witness ==
  /\ pdfPc = "returned"
  /\ pdfEnv.importOk
  /\ trim(pdfPayload.customerName) # <<>>
  /\ pdfPayload.items = <<>>
  /\ pdfLog = <<[op |-> "alert", msg |-> "empty"]>>

\* the totals of every stored quote are those of its own items and tax
SnapshotTotals ==
  \A q \in ElementsOf(quotes) :
    /\ q.totals.sub = computeSubTotal(q.items)
    /\ q.totals.tax = Mul(q.totals.sub, normalizeTaxPercent(q.taxPercent))
    /\ q.totals.grand = Add(q.totals.sub, q.totals.tax)

\* an edit of the draft
DraftEdit ==
  \/ addItem
  \/ \E id \in IdsOf(current.items) : removeItem(id)
  \/ \E v \in TaxTexts : SetTaxPercentText(v)
  \/ \E v \in NameTexts : SetCustomerName(v)
  \/ startNewEmptyQuote
  \/ \E id \in IdsOf(customers) : openLastQuoteForCustomer(id)

\* C14: a stored quote holds the subtotal of its own items, the tax of that
\* subtotal at its own tax percent and their sum, and no edit of the draft
\* (addItem, removeItem, tax or customer field, startNewEmptyQuote,
\* openLastQuoteForCustomer) changes any stored quote.
C14_SavedQuoteFrozen ==
  []SnapshotTotals /\ [][DraftEdit => quotes' = quotes]_vars

\* a stored quote with an item and tax 17 while the draft has been emptied
\* and its tax text changed
C14_Witness ==
  /\ Len(quotes) = 1
  /\ quotes[1].items # <<>>
  /\ quotes[1].taxPercent = Whole(17)
  /\ current.items = <<>>
  /\ current.taxPercentText = <<"-", "5">>

\* a change of the profile list in the settings dialog
ProfileEdit ==
  \/ addProfile
  \/ saveProfileEdit
  \/ \E id \in IdsOf(profiles) : deleteProfile(id)

\* C15: addProfile, saveProfileEdit and deleteProfile leave the items of the
\* draft and every stored quote as they are: each committed item keeps the
\* profileName, unitPrice text and subtotal it was added with.
C15_ItemsKeepProfile ==
  [][ProfileEdit => (current'.items = current.items /\ quotes' = quotes)]_vars

\* profile 1 has been renamed and re-priced while an item of the draft and
\* an item of a stored quote still carry its old name and price
C15_Witness ==
  /\ findProfile(profiles, 1).id = 1
  /\ findProfile(profiles, 1).name = <<"B">>
  /\ findProfile(profiles, 1).unitPrice # Whole(520)
  /\ \E it \in ElementsOf(current.items) :
       /\ it.profileId = 1
       /\ it.profileName = <<"4", "3", "0", "0">>
       /\ it.unitPrice = <<"5", "2", "0">>
  /\ \E q \in ElementsOf(quotes) : \E it \in ElementsOf(q.items) :
       /\ it.profileId = 1
       /\ it.profileName = <<"4", "3", "0", "0">>
       /\ it.unitPrice = <<"5", "2", "0">>

\* the text has a character in U+0590..U+05FF
HasHebrew(text) == \E i \in 1..Len(text) : 1424 <= text[i] /\ text[i] <= 1535

\* C16: the run drawTextSmart draws is RTL when forceRtl is given as true,
\* LTR when it is given as false, and otherwise RTL exactly when the text
\* has a character in U+0590..U+05FF; its alignment is the align given, and
\* otherwise "right" for an RTL run and "left" for an LTR run.
C16_DirectionAndAlignment ==
  pdfPc = "drawn" =>
    /\ pdfLog[1].run.rtl =
         (IF drawArgs.opts.forceRtl = {TRUE} THEN TRUE
          ELSE IF drawArgs.opts.forceRtl = {FALSE} THEN FALSE
          ELSE HasHebrew(drawArgs.text))
    /\ \/ drawArgs.opts.align = {pdfLog[1].run.align}
       \/ /\ drawArgs.opts.align = {}
          /\ pdfLog[1].run.align = (IF pdfLog[1].run.rtl THEN "right" ELSE "left")

\* digits drawn with forceRtl true and no align: an RTL run aligned right
C16_Witness ==
  /\ pdfPc = "drawn"
  /\ drawArgs.text = <<49, 50>>
  /\ drawArgs.opts = [align |-> {}, forceRtl |-> {TRUE}]
  /\ pdfLog[1].run.rtl
  /\ pdfLog[1].run.align = "right"

\* places of the export that draw a monetary value or a quantity
NumericRoles == {"unitPrice", "qty", "total", "sub", "vat", "grand"}

\* C17: every text run of the exported document that carries a monetary
\* value or a quantity (unit price, quantity and total of a row; subtotal,
\* tax and grand total of the totals box) is drawn LTR.
C17_NumbersDrawnLtr ==
  \A i \in 1..Len(pdfLog) :
    (pdfLog[i].op = "text" /\ pdfLog[i].role \in NumericRoles)
      => ~pdfLog[i].run.rtl

\* the table header has been drawn
TableDrawn == pdfPc \in {"rows", "totals", "signature", "save", "saved"}

\* left edge of the column c
ColumnLeft(variant, c) == colX(variant, c) - colWidths(variant)[c]

\* C18: the columns of the table tile the content width from right to left:
\* the row-number column ends at pageWidth - margin, every other column ends
\* where its right neighbour begins, and the widths sum to
\* pageWidth - 2 * margin, so that the leftmost column begins at the left
\* margin.
C18_ColumnsTile ==
  TableDrawn =>
    /\ colX(pdfEnv.variant, "num") = pageWidth - marginX
    /\ \A k \in 2..Len(columns(pdfEnv.variant)) :
         colX(pdfEnv.variant, columns(pdfEnv.variant)[k])
           = ColumnLeft(pdfEnv.variant, columns(pdfEnv.variant)[k - 1])
    /\ widthsRightOf(pdfEnv.variant, Len(columns(pdfEnv.variant)))
         = pageWidth - 2 * marginX
    /\ ColumnLeft(pdfEnv.variant, "total") = marginX

\* page breaks, table headers and rows of a log, in the order drawn
Layout(log) ==
  SelectSeq(log, LAMBDA e : e.op \in {"addPage", "header", "row"})

\* what the step has added to the document
Drawn == Layout(SubSeq(pdfLog', Len(pdfLog) + 1, Len(pdfLog')))

\* a row is drawn below a header or below another row, never first on a page
HeaderPrecedesRows ==
  \A j \in 1..Len(Layout(pdfLog)) :
    Layout(pdfLog)[j].op = "row" =>
      /\ j > 1
      /\ Layout(pdfLog)[j - 1].op \in {"header", "row"}

\* the row of this step: after a page break and a header at the top margin
\* when it does not fit below pdfCursor.y, else at pdfCursor.y
BreakOrder ==
  /\ Drawn # <<>>
  /\ Drawn[Len(Drawn)].op = "row"
  /\ Drawn[Len(Drawn)].idx = pdfCursor.idx
  /\ IF pdfCursor.y + Drawn[Len(Drawn)].height > pageHeight - marginBottom
     THEN /\ Len(Drawn) = 3
          /\ Drawn[1].op = "addPage"
          /\ Drawn[2].op = "header"
          /\ Drawn[2].top = marginTop
          /\ Drawn[3].top = marginTop + headerHeight
     ELSE /\ Len(Drawn) = 1
          /\ Drawn[1].top = pdfCursor.y

\* C19: when a row's y + rowHeight exceeds pageHeight - marginBottom,
\* drawItemsTable adds a page, draws the table header at the top margin of
\* the new page and then draws that row below it; so on every page the first
\* row drawn comes directly after a header drawn on that page.
C19_PageBreakOrder ==
  []HeaderPrecedesRows /\ [][drawTableRow => BreakOrder]_vars

\* an exported document whose third row was moved to a second page
C19_Witness ==
  /\ pdfPc = "saved"
  /\ Len(Layout(pdfLog)) = 6
  /\ Layout(pdfLog)[4].op = "addPage"
  /\ Layout(pdfLog)[5].op = "header"
  /\ Layout(pdfLog)[6].op = "row"
  /\ Layout(pdfLog)[6].idx = 3
  /\ Layout(pdfLog)[6].top = marginTop + headerHeight

\* C20: every row drawItemsTable draws lies on one page inside the printable
\* area, whatever the number of lines its cells wrap into: it begins at or
\* below the top margin and ends at or above the bottom margin.
C20_RowsInsidePage ==
  \A i \in 1..Len(pdfLog) :
    pdfLog[i].op = "row" =>
      /\ pdfLog[i].top >= marginTop
      /\ pdfLog[i].top + pdfLog[i].height <= pageHeight - marginBottom

\* drawItemsTable has returned
TableDone == pdfPc \in {"totals", "signature", "save", "saved"}

\* C21: every table header drawItemsTable draws has a data row directly
\* beneath it on its page: in the finished table no header is followed by a
\* page break or by nothing.
C21_NoOrphanHeader ==
  TableDone =>
    \A j \in 1..Len(Layout(pdfLog)) :
      Layout(pdfLog)[j].op = "header" =>
        /\ j < Len(Layout(pdfLog))
        /\ Layout(pdfLog)[j + 1].op = "row"

\* calls that put something on a page
DrawOps == {"text", "header", "row", "cell", "addImage"}

\* C22: both fetches of exportQuotePdf, the font file and the signature
\* image, are issued and answered before the first draw operation: no fetch
\* comes after a draw operation.
C22_FetchesBeforeDrawing ==
  \A i \in 1..Len(pdfLog) : \A j \in 1..Len(pdfLog) :
    (pdfLog[i].op = "fetch" /\ pdfLog[j].op \in DrawOps) => i < j

\* the calls of one kind, and the text runs of one place, in the log
OpsOf(kind) == SelectSeq(pdfLog, LAMBDA e : e.op = kind)

RunsOf(role) == SelectSeq(pdfLog, LAMBDA e : e.op = "text" /\ e.role = role)

\* how the fetch of url was answered
FetchOutcome(url) ==
  (CHOOSE e \in ElementsOf(OpsOf("fetch")) : e.url = url).outcome

\* every section of the document has been drawn
AllSectionsDrawn ==
  /\ Len(RunsOf("title")) = Len(headerLines)
  /\ Len(RunsOf("customer")) = 1
  /\ Len(OpsOf("header")) >= 1
  /\ Len(OpsOf("row")) = Len(pdfPayload.items)
  /\ \A r \in {"sub", "vat", "grand", "date", "signature"} : Len(RunsOf(r)) = 1

\* C23: a call that passed validation does not return early and stands at
\* a step that can be taken until it has saved, whatever the two fetches
\* answer; when it has saved it has drawn every section,
\* saved exactly once and shown no message, the signature image is placed
\* exactly when its fetch answered ok, and a font fetch that did not answer
\* ok has left one warning and nothing else.
C23_FetchFailuresTolerated ==
  /\ ~PdfAbortCause => pdfPc # "returned"
  /\ pdfPc \in {"import", "validate", "font", "header", "table", "rows",
                "totals", "signature", "save", "saved", "returned"}
  /\ pdfPc = "rows" => pdfCursor.idx \in 1..Len(pdfPayload.items)
  /\ pdfPc = "saved" =>
       /\ AllSectionsDrawn
       /\ Len(OpsOf("save")) = 1
       /\ Len(OpsOf("alert")) = 0
       /\ Len(OpsOf("fetch")) = 2
       /\ Len(OpsOf("addImage"))
            = (IF FetchOutcome("signature") = "ok" THEN 1 ELSE 0)
       /\ Len(OpsOf("warn")) = (IF FetchOutcome("font") = "ok" THEN 0 ELSE 1)
       /\ Len(OpsOf("addFont")) = (IF FetchOutcome("font") = "ok" THEN 1 ELSE 0)

\* saved after a rejected font fetch and an HTTP failure of the signature
C23_Witness ==
  /\ pdfPc = "saved"
  /\ FetchOutcome("font") = "rejected"
  /\ FetchOutcome("signature") = "http"
  /\ Len(OpsOf("warn")) = 1
  /\ Len(OpsOf("addImage")) = 0
  /\ Len(OpsOf("save")) = 1


\* The text hydrateState could not use: not empty, rejected by JSON.parse.
CorruptStored == storage.main.kind = "text" /\ storage.main.text # <<>>

StateIsDefault ==
  /\ customers = <<>>
  /\ quotes = <<>>
  /\ profiles = defaultProfiles
  /\ current = DEFAULT_CURRENT

withoutIds(items) == [k \in 1..Len(items) |-> [items[k] EXCEPT !.id = 0]]

C25_ExportReadsOpenedQuote ==
  pdfPc = "import"
    => /\ pdfPayload.customerName = current.customerName
       /\ pdfPayload.taxPercentText = current.taxPercentText
       /\ withoutIds(pdfPayload.items) = withoutIds(current.items)


NonNegative(a) == ~Gt(Whole(0), a)

\* C26: the subtotal of every committed line and the sub, tax and grand
\* totals of the draft are never negative, whatever texts were typed.
C26_AmountsNonNegative ==
  /\ \A i \in 1..Len(current.items) : NonNegative(current.items[i].subtotal)
  /\ NonNegative(subTotal)
  /\ NonNegative(taxValue)
  /\ NonNegative(grandTotal)


\* C27: for the draft on screen, the sub, tax and grand values exportQuotePdf
\* prints in the totals box are the subTotal, taxValue and grandTotal the
\* application shows and stores for that draft.
C27_PdfTotalsMatchScreen ==
  pdfTotals(exportPayload(current))
    = [sub |-> subTotal, tax |-> taxValue, grand |-> grandTotal]


\* C28: while activeProfileId names an existing profile and nobody types in
\* the unit-price field, the item editor carries that profile's id, name and
\* unit price; in particular after addItem has reset the editor.
C28_EditorFollowsSelection ==
  findProfile(profiles, activeProfileId).id # 0
    => /\ itemEditor.profileId = activeProfileId
       /\ itemEditor.profileName = findProfile(profiles, activeProfileId).name
       /\ itemEditor.unitPrice
            = numberToString(findProfile(profiles, activeProfileId).unitPrice)


\* C29: the totals box, which begins 18 pt below the end of the table and is
\* 96 pt high, ends at or above the top of the footer, 80 pt above the
\* bottom margin.
C29_TotalsBoxAboveFooter ==
  pdfPc = "totals"
    => pdfCursor.y + 18 * PT + 96 * PT <= pageHeight - marginBottom - 80 * PT


\* the draft is the quote q of the customer c: fields and recomputed totals
DraftIsQuote(q, c) ==
  /\ withoutIds(current.items) = withoutIds(q.items)
  /\ current.title = q.title
  /\ current.customerName = c.name
  /\ current.customerPhone = c.phone
  /\ current.customerEmail = c.email
  /\ current.customerNotes = c.notes
  /\ subTotal = q.totals.sub
  /\ taxValue = q.totals.tax
  /\ grandTotal = q.totals.grand

\* C30: openLastQuoteForCustomer leaves a draft whose items are the saved
\* quote's in order and in every field but the id, whose title and customer
\* fields are the stored ones, and whose recomputed sub, tax and grand are
\* the totals stored in the quote, whatever the tax text was.
C30_RoundTrip ==
  formStep # 0
    => DraftIsQuote(quotesOf(quotes, formStep)[1],
                    customers[indexOfId(customers, formStep)])

====
